---- MODULE Spec2Model ----
(***************************************************************************)
(* A model of pytastic: the constraint parser (utils.py), the Validator    *)
(* tree and its compiler (validators.py, compiler.py), the code generating *)
(* backend (codegen.py) together with the execution of the Python text it  *)
(* generates, and the Pytastic facade (core.py).                           *)
(*                                                                         *)
(* Python values are tagged records, numbers are fixed point integers in   *)
(* tenths, text is a TLA+ string, a path is the string the code builds.    *)
(*          The generated Python is modelled for an interpreter that       *)
(* accepts nested quotes inside f-strings (Python 3.12 and later).         *)
(***************************************************************************)
EXTENDS Integers, Sequences, FiniteSets, TLC

(***************************************************************************)
(* Bounds of the model                                                     *)
(***************************************************************************)
\* Number of validate calls made on one Pytastic instance in SpecFacade.
MaxCalls == 2

(***************************************************************************)
(* Python values                                                           *)
(***************************************************************************)
VNone == [t |-> "none"]
VBool(b) == [t |-> "bool", b |-> b]
\* numbers are kept in tenths: VInt(3).n = 30, VFloat(5).n = 5 is 0.5
Tenths(i) == i * 10
VInt(i) == [t |-> "int", n |-> Tenths(i)]
VFloat(tenths) == [t |-> "float", n |-> tenths]
VStr(s) == [t |-> "str", s |-> s]
VList(xs) == [t |-> "list", items |-> xs]
VTuple(xs) == [t |-> "tuple", items |-> xs]
\* a dict keeps its insertion order in keys; vals maps each key to its value
VDict(ks, f) == [t |-> "dict", keys |-> ks, vals |-> f]
EmptyDict == VDict(<<>>, <<>>)

Range(s) == {s[i] : i \in DOMAIN s}

\* dict[key] = value on a fresh copy
DictSet(d, key, v) ==
    IF key \in Range(d.keys)
    THEN VDict(d.keys, [k \in DOMAIN d.vals |-> IF k = key THEN v ELSE d.vals[k]])
    ELSE VDict(Append(d.keys, key), (key :> v) @@ d.vals)

\* dict.get(key)
DictGet(d, key) == IF key \in Range(d.keys) THEN d.vals[key] ELSE VNone

IsNumber(v) == v.t \in {"int", "float", "bool"}
\* the numeric value in tenths; bool is a subclass of int
Num(v) == IF v.t = "bool" THEN (IF v.b THEN Tenths(1) ELSE 0) ELSE v.n

RECURSIVE PyEq(_, _)
RECURSIVE SeqEq(_, _, _)
\* Python ==
PyEq(a, b) ==
    CASE IsNumber(a) /\ IsNumber(b) -> Num(a) = Num(b)
      [] a.t = "str" /\ b.t = "str" -> a.s = b.s
      [] a.t = "none" /\ b.t = "none" -> TRUE
      [] a.t = b.t /\ a.t \in {"list", "tuple"} ->
            Len(a.items) = Len(b.items) /\ SeqEq(a.items, b.items, 1)
      [] a.t = "dict" /\ b.t = "dict" ->
            /\ Range(a.keys) = Range(b.keys)
            /\ \A k \in Range(a.keys) : PyEq(a.vals[k], b.vals[k])
      [] OTHER -> FALSE
SeqEq(xs, ys, i) ==
    IF i > Len(xs) THEN TRUE
    ELSE PyEq(xs[i], ys[i]) /\ SeqEq(xs, ys, i + 1)

\* bool(v)
Truthy(v) ==
    CASE v.t = "none" -> FALSE
      [] v.t = "bool" -> v.b
      [] v.t \in {"int", "float"} -> v.n # 0
      [] v.t = "str" -> v.s # ""
      [] v.t \in {"list", "tuple"} -> Len(v.items) > 0
      [] v.t = "dict" -> Len(v.keys) > 0

\* type(v).__name__ is in the given class names, as isinstance decides it
IsInstance(v, classes) ==
    \/ v.t \in classes
    \/ v.t = "bool" /\ "int" \in classes

(***************************************************************************)
(* Results of a call: a returned value or a raised exception               *)
(***************************************************************************)
Entry(path, message) == [path |-> path, message |-> message]
Ok(v) == [exc |-> "none", val |-> v, errors |-> <<>>]
\* raise ValidationError(message, errors)
Fail(errors) == [exc |-> "ValidationError", val |-> VNone, errors |-> errors]
\* any other exception type
Crash(name) == [exc |-> name, val |-> VNone, errors |-> <<>>]
NotRun == [exc |-> "notrun", val |-> VNone, errors |-> <<>>]

Accepted(r) == r.exc = "none"
Rejected(r) == r.exc = "ValidationError"
EntrySet(r) == Range(r.errors)

\* f'[{i}]'
IdxStr(i) == CASE i = 0 -> "[0]" [] i = 1 -> "[1]" [] i = 2 -> "[2]"
               [] i = 3 -> "[3]" [] OTHER -> "[n]"

(***************************************************************************)
(* utils.py: the constraint parser                                         *)
(***************************************************************************)
Ch(s, i) == SubSeq(s, i, i)

\* the element of a set of one element: the value of an expression, computed
\* once for every use made of it
The(S) == CHOOSE x \in S : TRUE

RECURSIVE IndexOf(_, _, _)
\* the first position >= i of character c in s, 0 when there is none
IndexOf(s, c, i) ==
    IF i > Len(s) THEN 0
    ELSE IF Ch(s, i) = c THEN i ELSE IndexOf(s, c, i + 1)

Contains(s, c) == IndexOf(s, c, 1) # 0

UpperChars == "ABCDEFGHIJKLMNOPQRSTUVWXYZ"
LowerChars == "abcdefghijklmnopqrstuvwxyz"
LowerCh(c) ==
    LET i == IndexOf(UpperChars, c, 1)
    IN IF i = 0 THEN c ELSE Ch(LowerChars, i)

RECURSIVE Lower(_)
\* str.lower()
Lower(s) == IF s = "" THEN "" ELSE LowerCh(Head(s)) \o Lower(Tail(s))

\* \s of the regular expressions, for the characters the model uses
IsSpace(c) == c = " "
\* [^=;\s]
IsKeyChar(c) == ~(c = "=" \/ c = ";" \/ IsSpace(c))

RECURSIVE KeyEnd(_, _)
\* the position after the longest run of key characters that starts at p
KeyEnd(text, p) ==
    IF p <= Len(text) /\ IsKeyChar(Ch(text, p)) THEN KeyEnd(text, p + 1) ELSE p

RECURSIVE SkipSpace(_, _)
SkipSpace(text, p) ==
    IF p <= Len(text) /\ IsSpace(Ch(text, p)) THEN SkipSpace(text, p + 1) ELSE p

\* the position of the next c at or after p, Len + 1 when there is none
Upto(text, c, p) ==
    LET i == IndexOf(text, c, p) IN IF i = 0 THEN Len(text) + 1 ELSE i

\* val.lower() == 'true' / 'false' conversion of an unquoted value
BoolOrStr(val) ==
    IF Lower(val) = "true" THEN VBool(TRUE)
    ELSE IF Lower(val) = "false" THEN VBool(FALSE)
    ELSE VStr(val)

RECURSIVE SimpleScan(_, _, _)
\* re.finditer over the three alternatives of the pattern of _parse_simple:
\*   key = 'quoted'  |  key = value  |  key
SimpleScan(text, p, constraints) ==
    IF p > Len(text) THEN constraints
    ELSE IF ~IsKeyChar(Ch(text, p)) THEN SimpleScan(text, p + 1, constraints)
    ELSE
      LET q == KeyEnd(text, p)
          key == SubSeq(text, p, q - 1)
          w == SkipSpace(text, q)
          hasEq == w <= Len(text) /\ Ch(text, w) = "="
          v == SkipSpace(text, w + 1)
          close == IF v <= Len(text) /\ Ch(text, v) = "'"
                   THEN IndexOf(text, "'", v + 1) ELSE 0
          semi == Upto(text, ";", v)
          \* \s* gives one space back when nothing else is left for [^;]+
          from == IF semi > v THEN v ELSE v - 1
          found == IF hasEq /\ close # 0
                   THEN [next |-> close + 1,
                         value |-> VStr(SubSeq(text, v + 1, close - 1))]
                   ELSE IF hasEq /\ (semi > v \/ v > w + 1)
                   THEN [next |-> semi,
                         value |-> BoolOrStr(SubSeq(text, from, semi - 1))]
                   ELSE [next |-> q, value |-> VBool(TRUE)]
      IN The({SimpleScan(text, m.next, (m.key :> m.value) @@ constraints) :
                 m \in {found @@ [key |-> key]}})

_parse_simple(text) == The({SimpleScan(t, 1, <<>>) : t \in {text}})

\* "any(c in annotation_str for c in '?!|') or '==' in annotation_str"
RECURSIVE HasDoubleEq(_, _)
HasDoubleEq(s, i) ==
    IF i >= Len(s) THEN FALSE
    ELSE (Ch(s, i) = "=" /\ Ch(s, i + 1) = "=") \/ HasDoubleEq(s, i + 1)
IsComplex(s) ==
    Contains(s, "?") \/ Contains(s, "!") \/ Contains(s, "|") \/ HasDoubleEq(s, 1)

\* dict.get(key) on a constraints mapping
Get(constraints, key) ==
    IF key \in DOMAIN constraints THEN constraints[key] ELSE VNone
\* constraints.get(a) or constraints.get(b)
GetOr(constraints, a, b) ==
    IF Truthy(Get(constraints, a)) THEN Get(constraints, a) ELSE Get(constraints, b)

Digits == "0123456789"
IsDigit(c) == c # "" /\ Contains(Digits, c)
DigitVal(c) == IndexOf(Digits, c, 1) - 1

RECURSIVE AllDigits(_)
AllDigits(s) == s = "" \/ (IsDigit(Head(s)) /\ AllDigits(Tail(s)))
RECURSIVE DigitsVal(_, _)
DigitsVal(s, acc) ==
    IF s = "" THEN acc ELSE DigitsVal(Tail(s), acc * 10 + DigitVal(Head(s)))

RECURSIVE Strip(_)
\* str.strip() for spaces
Strip(s) ==
    IF s # "" /\ IsSpace(Head(s)) THEN Strip(Tail(s))
    ELSE IF s # "" /\ IsSpace(Ch(s, Len(s))) THEN Strip(SubSeq(s, 1, Len(s) - 1))
    ELSE s

\* the text after its leading minus sign
SignOff(s) == IF s # "" /\ Head(s) = "-" THEN Tail(s) ELSE s
\* int(v) of a constraint value: [ok, n] with n the integer
ToInt(v) ==
    IF v.t = "bool" THEN [ok |-> TRUE, n |-> IF v.b THEN 1 ELSE 0]
    ELSE IF v.t # "str" THEN [ok |-> FALSE, n |-> 0]
    ELSE The({IF SignOff(s) # "" /\ AllDigits(SignOff(s))
              THEN [ok |-> TRUE,
                    n |-> IF s = SignOff(s) THEN DigitsVal(s, 0)
                          ELSE 0 - DigitsVal(SignOff(s), 0)]
              ELSE [ok |-> FALSE, n |-> 0] : s \in {Strip(v.s)}})

\* the digits before and after the dot, read in tenths
Decimal(whole, frac) ==
    IF /\ AllDigits(whole) /\ AllDigits(frac)
       /\ Len(whole) + Len(frac) > 0 /\ Len(frac) <= 1
    THEN [ok |-> TRUE, n |-> Tenths(DigitsVal(whole, 0)) + DigitsVal(frac, 0)]
    ELSE [ok |-> FALSE, n |-> 0]
\* an unsigned text with its dot at position dot, 0 when it has none
Unsigned(body, dot) ==
    IF dot = 0 THEN Decimal(body, "")
    ELSE Decimal(SubSeq(body, 1, dot - 1), SubSeq(body, dot + 1, Len(body)))
Negated(r) == [ok |-> r.ok, n |-> 0 - r.n]

\* float(v) of a constraint value: [ok, n] with n in tenths; the model reads
\* an optional sign, digits and at most one decimal digit
ToFloat(v) ==
    IF v.t = "bool" THEN [ok |-> TRUE, n |-> IF v.b THEN Tenths(1) ELSE 0]
    ELSE IF v.t # "str" THEN [ok |-> FALSE, n |-> 0]
    ELSE The({IF s = body THEN Unsigned(body, IndexOf(body, ".", 1))
              ELSE Negated(Unsigned(body, IndexOf(body, ".", 1))) :
                 s \in {Strip(v.s)}, body \in {SignOff(Strip(v.s))}})

(***************************************************************************)
(* Number and text formatting of the messages                              *)
(***************************************************************************)
RECURSIVE NatStr(_)
\* str(n) of a natural number
NatStr(n) ==
    IF n < 10 THEN Ch(Digits, n + 1)
    ELSE NatStr(n \div 10) \o Ch(Digits, (n % 10) + 1)
IntStr(i) == IF i < 0 THEN "-" \o NatStr(0 - i) ELSE NatStr(i)
\* repr of a float given in tenths: 180 is written 18.0
FloatStr(n) ==
    LET mag == IF n < 0 THEN 0 - n ELSE n
    IN (IF n < 0 THEN "-" ELSE "") \o NatStr(mag \div 10) \o "." \o NatStr(mag % 10)

\* repr(v) of the scalars a Literal holds
Repr(v) ==
    CASE v.t = "str" -> "'" \o v.s \o "'"
      [] v.t = "int" -> IntStr(v.n \div 10)
      [] v.t = "float" -> FloatStr(v.n)
      [] v.t = "bool" -> IF v.b THEN "True" ELSE "False"
      [] OTHER -> "None"

RECURSIVE JoinRepr(_, _)
\* ", ".join(repr(v) for v in values)
JoinRepr(values, i) ==
    IF i > Len(values) THEN ""
    ELSE Repr(values[i]) \o (IF i < Len(values) THEN ", " ELSE "")
         \o JoinRepr(values, i + 1)

(***************************************************************************)
(* Schema descriptors: the typing constructs a schema is written with      *)
(***************************************************************************)
TInt == [k |-> "int"]
TFloat == [k |-> "float"]
TStr == [k |-> "str"]
TBool == [k |-> "bool"]
TAny == [k |-> "Any"]
TNoneType == [k |-> "NoneType"]
TList(item) == [k |-> "list", item |-> item]
TTuple(items) == [k |-> "tuple", items |-> items]
TUnion(alts) == [k |-> "Union", alts |-> alts]
TLiteral(values) == [k |-> "Literal", values |-> values]
TNotRequired(arg) == [k |-> "NotRequired", arg |-> arg]
\* Annotated[base, *meta]: meta are the string arguments
TAnnotated(base, meta) == [k |-> "Annotated", base |-> base, meta |-> meta]
Field(key, type) == [key |-> key, type |-> type]
\* class name(TypedDict): fields, in declaration order ('_' included)
TTypedDict(name, fields) == [k |-> "TypedDict", name |-> name, fields |-> fields]

\* typing: __required_keys__ of a total TypedDict
RequiredKeys(td) ==
    {td.fields[i].key : i \in {j \in DOMAIN td.fields :
         ~(td.fields[j].type.k = "NotRequired"
           \/ (td.fields[j].type.k = "Annotated"
               /\ td.fields[j].type.base.k = "NotRequired"))}}

RECURSIVE ConstraintStr(_, _)
\* "for arg in args[1:]: constraint_str += arg + ';'"
ConstraintStr(meta, i) ==
    IF i > Len(meta) THEN "" ELSE meta[i] \o ";" \o ConstraintStr(meta, i + 1)

\* the field '_' of a TypedDict, or none
MetaField(td) ==
    LET idx == {i \in DOMAIN td.fields : td.fields[i].key = "_"}
    IN IF idx = {} THEN TAny ELSE td.fields[CHOOSE i \in idx : TRUE].type

\* the declared fields of a TypedDict without '_', in declaration order
DeclaredFields(td) == SelectSeq(td.fields, LAMBDA f : f.key # "_")
FieldKeys(td) == {DeclaredFields(td)[i].key : i \in DOMAIN DeclaredFields(td)}

(***************************************************************************)
(* utils.py: the parser of '?', '!' and '|' clauses                        *)
(***************************************************************************)
LeafConstraint(key, value) == [node |-> "Leaf", key |-> key, value |-> value]
ConditionalConstraint(condition, constraint) ==
    [node |-> "Conditional", condition |-> condition, constraint |-> constraint]
OrConstraint(constraints) == [node |-> "Or", constraints |-> constraints]
NotConstraint(constraint) == [node |-> "Not", constraint |-> constraint]

RECURSIVE SplitScan(_, _, _, _, _, _)
\* the loop of _split_respecting_quotes: parts so far, the current part, and
\* whether the scan is inside a quoted segment
SplitScan(text, delimiter, i, parts, current, quoted) ==
    IF i > Len(text)
    THEN IF current # "" THEN Append(parts, current) ELSE parts
    ELSE LET c == Ch(text, i)
         IN IF quoted
            THEN SplitScan(text, delimiter, i + 1, parts, current \o c, c # "'")
            ELSE IF c = "'"
            THEN SplitScan(text, delimiter, i + 1, parts, current \o c, TRUE)
            ELSE IF c = delimiter
            THEN SplitScan(text, delimiter, i + 1, Append(parts, current), "", FALSE)
            ELSE SplitScan(text, delimiter, i + 1, parts, current \o c, FALSE)

_split_respecting_quotes(text, delimiter) ==
    SplitScan(text, delimiter, 1, <<>>, "", FALSE)

RECURSIVE StripQuotes(_)
\* str.strip("'")
StripQuotes(s) ==
    IF s # "" /\ Head(s) = "'" THEN StripQuotes(Tail(s))
    ELSE IF s # "" /\ Ch(s, Len(s)) = "'" THEN StripQuotes(SubSeq(s, 1, Len(s) - 1))
    ELSE s

RECURSIVE _parse_single_constraint(_)
RECURSIVE _parse_stripped(_)
RECURSIVE ParseEach(_, _)
_parse_single_constraint(raw) == The({_parse_stripped(text) : text \in {Strip(raw)}})
\* the body of _parse_single_constraint after "text = text.strip()"
_parse_stripped(text) ==
    LET subs == _split_respecting_quotes(text, "|")
        \* re.match(r"^([^?]+)\s*\?\s+(.+)$", text)
        q == IndexOf(text, "?", 1)
        condMatch == /\ q > 1
                     /\ q + 2 <= Len(text)
                     /\ IsSpace(Ch(text, q + 1))
        \* re.match(r"^([^=]+)=(.+)$", text)
        e == IndexOf(text, "=", 1)
        kvMatch == e > 1 /\ e < Len(text)
    IN IF Contains(text, "|") /\ Len(subs) > 1
       THEN OrConstraint(ParseEach(subs, 1))
       ELSE IF condMatch
       THEN ConditionalConstraint(Strip(SubSeq(text, 1, q - 1)),
                _parse_single_constraint(SubSeq(text, q + 1, Len(text))))
       ELSE IF text # "" /\ Head(text) = "!"
       THEN NotConstraint(_parse_single_constraint(Tail(text)))
       ELSE IF kvMatch
       THEN LeafConstraint(Strip(SubSeq(text, 1, e - 1)),
                BoolOrStr(StripQuotes(Strip(SubSeq(text, e + 1, Len(text))))))
       ELSE LeafConstraint(text, VBool(TRUE))
ParseEach(parts, i) ==
    IF i > Len(parts) THEN <<>>
    ELSE <<_parse_single_constraint(parts[i])>> \o ParseEach(parts, i + 1)

\* the nodes of the non-blank parts between top-level semicolons
_parse_complex(text) ==
    ParseEach(SelectSeq(_split_respecting_quotes(text, ";"),
                        LAMBDA part : Strip(part) # ""), 1)

\* the result is a dict (simple case) or a list of nodes
parse_constraints(annotation_str) ==
    The({IF s = "" THEN [kind |-> "dict", d |-> <<>>, nodes |-> <<>>]
         ELSE IF IsComplex(s)
         THEN [kind |-> "list", d |-> <<>>, nodes |-> _parse_complex(s)]
         ELSE [kind |-> "dict", d |-> _parse_simple(s), nodes |-> <<>>] :
            s \in {annotation_str}})

RECURSIVE LeafDict(_, _, _)
\* "if isinstance(node, LeafConstraint): constraints[node.key] = node.value"
LeafDict(nodes, i, constraints) ==
    IF i > Len(nodes) THEN constraints
    ELSE LeafDict(nodes, i + 1,
            IF nodes[i].node = "Leaf"
            THEN (nodes[i].key :> nodes[i].value) @@ constraints
            ELSE constraints)

\* the flat constraints and the wrapper nodes of a parse result
ConstraintsOf(parsed) ==
    IF parsed.kind = "dict" THEN parsed.d ELSE LeafDict(parsed.nodes, 1, <<>>)
WrappersOf(parsed) == SelectSeq(parsed.nodes, LAMBDA n : n.node # "Leaf")

(***************************************************************************)
(* re.search for the patterns the model uses: an optional '^', then atoms  *)
(* (a literal character or a class [a-z0-9_]) each with an optional '+' or *)
(* '*', then an optional '$'                                               *)
(***************************************************************************)
\* the characters of the model in ASCII order
Alphabet == "!-.0123456789@ABCDEFGHIJKLMNOPQRSTUVWXYZ_abcdefghijklmnopqrstuvwxyz"
Ord(c) == IndexOf(Alphabet, c, 1)

RECURSIVE ClassRanges(_, _)
\* the ranges <<lo, hi>> of the inside of a class [...]
ClassRanges(body, i) ==
    IF i > Len(body) THEN <<>>
    ELSE IF i + 2 <= Len(body) /\ Ch(body, i + 1) = "-"
    THEN <<<<Ch(body, i), Ch(body, i + 2)>>>> \o ClassRanges(body, i + 3)
    ELSE <<<<Ch(body, i), Ch(body, i)>>>> \o ClassRanges(body, i + 1)

RECURSIVE Atoms(_, _)
\* the atoms of a pattern body: [ranges, q] with q one of "1", "+", "*"
Atoms(pat, i) ==
    IF i > Len(pat) THEN <<>>
    ELSE LET isClass == Ch(pat, i) = "["
             close == IF isClass THEN Upto(pat, "]", i + 1) ELSE i
             ranges == IF isClass THEN ClassRanges(SubSeq(pat, i + 1, close - 1), 1)
                       ELSE <<<<Ch(pat, i), Ch(pat, i)>>>>
             next == close + 1
             q == IF next <= Len(pat) /\ Ch(pat, next) \in {"+", "*"}
                  THEN Ch(pat, next) ELSE "1"
         IN <<[ranges |-> ranges, q |-> q]>>
            \o Atoms(pat, IF q = "1" THEN next ELSE next + 1)

CharIn(c, ranges) ==
    \E r \in DOMAIN ranges : Ord(ranges[r][1]) <= Ord(c) /\ Ord(c) <= Ord(ranges[r][2])

RECURSIVE MatchAt(_, _, _, _, _)
\* atoms k.. match text from position p (up to the end when toEnd)
MatchAt(atoms, k, text, p, toEnd) ==
    IF k > Len(atoms) THEN (toEnd => p = Len(text) + 1)
    ELSE LET a == atoms[k]
             here == p <= Len(text) /\ CharIn(Ch(text, p), a.ranges)
         IN CASE a.q = "1" -> here /\ MatchAt(atoms, k + 1, text, p + 1, toEnd)
              [] a.q = "+" -> here /\ (\/ MatchAt(atoms, k, text, p + 1, toEnd)
                                       \/ MatchAt(atoms, k + 1, text, p + 1, toEnd))
              [] OTHER -> \/ MatchAt(atoms, k + 1, text, p, toEnd)
                          \/ (here /\ MatchAt(atoms, k, text, p + 1, toEnd))

\* re.match: the pattern tried at the start of the text only
SearchFrom_start(text) == {1}
\* re.search: the positions of the text a match may start at
SearchFrom(text) == 1..(Len(text) + 1)

ReSearch(pattern, text) ==
    LET fromStart == pattern # "" /\ Head(pattern) = "^"
        p1 == IF fromStart THEN Tail(pattern) ELSE pattern
        toEnd == p1 # "" /\ Ch(p1, Len(p1)) = "$"
        body == IF toEnd THEN SubSeq(p1, 1, Len(p1) - 1) ELSE p1
        atoms == Atoms(body, 1)
    IN IF fromStart THEN MatchAt(atoms, 1, text, 1, toEnd)
       ELSE \E p \in SearchFrom(text) : MatchAt(atoms, 1, text, p, toEnd)

\* re.match of the UUID pattern on val.lower()
IsUuid(val) ==
    LET low == Lower(val)
    IN /\ Len(low) = 36
       /\ \A i \in 1..36 :
            IF i \in {9, 14, 19, 24} THEN Ch(low, i) = "-"
            ELSE Contains("0123456789abcdef", Ch(low, i))

RECURSIVE SplitOn(_, _, _)
\* str.split(c): the parts between the occurrences of c, empty parts kept
SplitOn(s, c, current) ==
    IF s = "" THEN <<current>>
    ELSE IF Head(s) = c THEN <<current>> \o SplitOn(Tail(s), c, "")
    ELSE SplitOn(Tail(s), c, current \o Ch(s, 1))

\* "len(parts) == 4 and all(p.isdigit() and 0 <= int(p) <= 255 for p in parts)"
IsIPv4(val) ==
    LET parts == SplitOn(val, ".", "")
    IN /\ Len(parts) = 4
       /\ \A i \in DOMAIN parts :
             parts[i] # "" /\ AllDigits(parts[i]) /\ DigitsVal(parts[i], 0) <= 255

\* re.match of the date-time pattern: dddd-dd-ddTdd:dd:dd at the start
IsDateTime(val) ==
    /\ Len(val) >= 19
    /\ \A i \in 1..19 :
          CASE i \in {5, 8} -> Ch(val, i) = "-"
            [] i = 11 -> Ch(val, i) = "T"
            [] i \in {14, 17} -> Ch(val, i) = ":"
            [] OTHER -> IsDigit(Ch(val, i))

\* re.match of the URI pattern: a letter, then letters, digits, '+', '.', '-'
\* up to a ':'
IsUri(val) ==
    LET colon == IndexOf(val, ":", 1)
    IN /\ colon > 1
       /\ Contains(UpperChars \o LowerChars, Ch(val, 1))
       /\ \A i \in 2..(colon - 1) :
             Contains(UpperChars \o LowerChars \o Digits \o "+.-", Ch(val, i))

(***************************************************************************)
(* validators.py: the Validator objects.  A constructor that raises gives  *)
(* a CompileError in place of the object.                                  *)
(***************************************************************************)
CompileError(exc) == [cls |-> "CompileError", exc |-> exc]
Failed(v) == v.cls = "CompileError"

\* the first failed validator of a sequence, or the given result
FirstFailedOr(vs, result) ==
    LET bad == {i \in DOMAIN vs : Failed(vs[i])}
    IN IF bad = {} THEN result
       ELSE vs[CHOOSE i \in bad : \A j \in bad : i <= j]

AnyValidator == [cls |-> "AnyValidator"]

\* float(constraints[key]) if key in constraints else None
OptFloat(constraints, key) ==
    IF key \in DOMAIN constraints
    THEN VFloat(ToFloat(constraints[key]).n) ELSE VNone
FloatOk(constraints, key) ==
    key \in DOMAIN constraints => ToFloat(constraints[key]).ok

NumberValidator(constraints, number_type) ==
    LET step == GetOr(constraints, "step", "multiple_of")
    IN IF /\ FloatOk(constraints, "min") /\ FloatOk(constraints, "max")
          /\ FloatOk(constraints, "exclusive_min")
          /\ FloatOk(constraints, "exclusive_max")
          /\ (Truthy(step) => ToFloat(step).ok)
       THEN [cls |-> "NumberValidator", number_type |-> number_type,
             min_val |-> OptFloat(constraints, "min"),
             max_val |-> OptFloat(constraints, "max"),
             exclusive_min_val |-> OptFloat(constraints, "exclusive_min"),
             exclusive_max_val |-> OptFloat(constraints, "exclusive_max"),
             step_val |-> IF Truthy(step) THEN VFloat(ToFloat(step).n) ELSE VNone]
       ELSE CompileError("ValueError")

StringValidator(constraints) ==
    LET min_l == GetOr(constraints, "min_length", "min_len")
        max_l == GetOr(constraints, "max_length", "max_len")
    IN IF (Truthy(min_l) => ToInt(min_l).ok) /\ (Truthy(max_l) => ToInt(max_l).ok)
       THEN [cls |-> "StringValidator",
             min_len |-> IF Truthy(min_l) THEN VInt(ToInt(min_l).n) ELSE VNone,
             max_len |-> IF Truthy(max_l) THEN VInt(ToInt(max_l).n) ELSE VNone,
             pattern |-> GetOr(constraints, "regex", "pattern"),
             format |-> Get(constraints, "format")]
       ELSE CompileError("ValueError")

\* item_kind: "one" for a list (one item validator), "many" for a tuple
CollectionValidator(constraints, item_kind, item_validator) ==
    FirstFailedOr(item_validator,
        [cls |-> "CollectionValidator", constraints |-> constraints,
         item_kind |-> item_kind, item_validator |-> item_validator])

UnionValidator(validators, mode) ==
    FirstFailedOr(validators,
        [cls |-> "UnionValidator", validators |-> validators, mode |-> mode])

\* fields: the sequence of [key, validator] in declaration order
ObjectValidator(fields, constraints, required_keys, conditional_required) ==
    FirstFailedOr([i \in DOMAIN fields |-> fields[i].validator],
        [cls |-> "ObjectValidator", fields |-> fields, constraints |-> constraints,
         required_keys |-> required_keys,
         conditional_required |-> conditional_required])

LiteralValidator(allowed_values) ==
    [cls |-> "LiteralValidator", allowed_values |-> allowed_values]

CompositeValidator(validators) ==
    FirstFailedOr(validators,
        [cls |-> "CompositeValidator", validators |-> validators])
ConditionalValidator(condition, validator) ==
    FirstFailedOr(<<validator>>,
        [cls |-> "ConditionalValidator", condition |-> condition,
         validator |-> validator])
NotValidator(validator) ==
    FirstFailedOr(<<validator>>, [cls |-> "NotValidator", validator |-> validator])
OrValidator(validators) ==
    FirstFailedOr(validators, [cls |-> "OrValidator", validators |-> validators])

(***************************************************************************)
(* compiler.py: SchemaCompiler                                             *)
(***************************************************************************)
RECURSIVE HasSub(_, _, _)
\* "sub in s"
HasSub(s, sub, i) ==
    IF i + Len(sub) - 1 > Len(s) THEN FALSE
    ELSE SubSeq(s, i, i + Len(sub) - 1) = sub \/ HasSub(s, sub, i + 1)

\* str(value) of a constraint value inside an f-string
ValueStr(v) == IF v.t = "bool" THEN (IF v.b THEN "True" ELSE "False") ELSE v.s

RECURSIVE _build_validator(_)
RECURSIVE BuildEach(_, _)
RECURSIVE _node_to_validator(_, _)
RECURSIVE NodesToValidators(_, _, _)
RECURSIVE _compile_typeddict(_, _)
RECURSIVE BuildFields(_, _)

BuildEach(types, i) ==
    IF i > Len(types) THEN <<>>
    ELSE <<_build_validator(types[i])>> \o BuildEach(types, i + 1)

NodesToValidators(nodes, base_type, i) ==
    IF i > Len(nodes) THEN <<>>
    ELSE <<_node_to_validator(nodes[i], base_type)>>
         \o NodesToValidators(nodes, base_type, i + 1)

_node_to_validator(node, base_type) ==
    CASE node.node = "Leaf" ->
            _build_validator(TAnnotated(base_type,
                <<node.key \o "=" \o ValueStr(node.value)>>))
      [] node.node = "Conditional" ->
            ConditionalValidator(node.condition,
                _node_to_validator(node.constraint, base_type))
      [] node.node = "Not" ->
            NotValidator(_node_to_validator(node.constraint, base_type))
      [] node.node = "Or" ->
            OrValidator(NodesToValidators(node.constraints, base_type, 1))

_build_complex_validator(nodes, base_type, base_validator) ==
    CompositeValidator(<<base_validator>> \o NodesToValidators(nodes, base_type, 1))

BuildFields(fields, i) ==
    IF i > Len(fields) THEN <<>>
    ELSE <<[key |-> fields[i].key, validator |-> _build_validator(fields[i].type)]>>
         \o BuildFields(fields, i + 1)

\* the (condition, key) pairs of the "cond ? required" clauses of the '_'
\* field and of the field annotations
MetaConditionals(parsed) ==
    LET sel == SelectSeq(parsed.nodes,
                   LAMBDA n : /\ n.node = "Conditional"
                              /\ n.constraint.node = "Leaf"
                              /\ n.constraint.value = VStr("required"))
    IN [i \in DOMAIN sel |->
          [condition |-> sel[i].condition, key |-> sel[i].constraint.key]]

FieldConditionals(field) ==
    IF field.type.k # "Annotated" THEN <<>>
    ELSE LET args == SelectSeq(field.type.meta, LAMBDA a : HasSub(a, "required", 1))
             parsed == parse_constraints(ConstraintStr(args, 1))
             sel == SelectSeq(parsed.nodes,
                        LAMBDA n : /\ n.node = "Conditional"
                                   /\ n.constraint.node = "Leaf"
                                   /\ n.constraint.key = "required")
         IN [i \in DOMAIN sel |-> [condition |-> sel[i].condition, key |-> field.key]]

RECURSIVE AllFieldConditionals(_, _)
AllFieldConditionals(fields, i) ==
    IF i > Len(fields) THEN <<>>
    ELSE FieldConditionals(fields[i]) \o AllFieldConditionals(fields, i + 1)

_compile_typeddict(td_cls, constraints) ==
    LET meta == MetaField(td_cls)
        parsed == IF meta.k = "Annotated"
                  THEN parse_constraints(ConstraintStr(meta.meta, 1))
                  ELSE parse_constraints("")
        \* constraints.update(parsed) / constraints[node.key] = node.value
        merged == ConstraintsOf(parsed) @@ constraints
        fields == DeclaredFields(td_cls)
    IN ObjectValidator(BuildFields(fields, 1), merged,
                       RequiredKeys(td_cls) \ {"_"},
                       MetaConditionals(parsed) \o AllFieldConditionals(fields, 1))

_build_validator(schema) ==
    CASE schema.k = "Annotated" ->
            LET base_type == schema.base
                parsed == parse_constraints(ConstraintStr(schema.meta, 1))
                constraints == ConstraintsOf(parsed)
                wrappers == WrappersOf(parsed)
                base_validator ==
                    CASE base_type.k \in {"int", "float"} ->
                            NumberValidator(constraints, base_type.k)
                      [] base_type.k = "str" -> StringValidator(constraints)
                      [] base_type.k = "list" ->
                            CollectionValidator(constraints, "one",
                                <<_build_validator(base_type.item)>>)
                      [] base_type.k = "tuple" ->
                            CollectionValidator(constraints, "many",
                                BuildEach(base_type.items, 1))
                      [] base_type.k = "Union" ->
                            UnionValidator(BuildEach(base_type.alts, 1),
                                IF Truthy(Get(constraints, "one_of"))
                                THEN "one_of" ELSE "any_of")
                      [] base_type.k = "Literal" -> LiteralValidator(base_type.values)
                      [] base_type.k = "TypedDict" ->
                            _compile_typeddict(base_type, constraints)
                      [] OTHER -> _build_validator(base_type)
            IN IF Failed(base_validator) THEN base_validator
               ELSE IF wrappers # <<>>
               THEN _build_complex_validator(wrappers, base_type, base_validator)
               ELSE base_validator
      [] schema.k = "TypedDict" -> _compile_typeddict(schema, <<>>)
      [] schema.k = "list" ->
            CollectionValidator(<<>>, "one", <<_build_validator(schema.item)>>)
      [] schema.k = "tuple" ->
            CollectionValidator(<<>>, "many", BuildEach(schema.items, 1))
      [] schema.k = "Union" -> UnionValidator(BuildEach(schema.alts, 1), "any_of")
      [] schema.k = "Literal" -> LiteralValidator(schema.values)
      [] schema.k = "NotRequired" -> _build_validator(schema.arg)
      [] schema.k \in {"int", "float"} -> NumberValidator(<<>>, schema.k)
      [] schema.k = "str" -> StringValidator(<<>>)
      [] schema.k = "NoneType" -> LiteralValidator(<<VNone>>)
      [] OTHER -> AnyValidator

(***************************************************************************)
(* validators.py: validate                                                 *)
(***************************************************************************)
\* Python's a % b on tenths, b # 0: the result has the sign of b
PyMod(a, b) == IF b > 0 THEN a % b ELSE 0 - ((0 - a) % (0 - b))

\* path of the field key of the record at path
FieldPath(path, key) == IF path # "" THEN path \o "." \o key ELSE key

\* "val <= self.min_val": the bound itself counted as below it
BelowMin_inclusive(val, min_val) == val <= min_val
\* "val < self.min_val"
BelowMin(val, min_val) == val < min_val

\* NumberValidator.validate
NumberValidate(self, data, path) ==
    IF ~IsInstance(data, {"int", "float"})
    THEN Fail(<<Entry(path, "Invalid type")>>)
    ELSE IF self.number_type = "int" /\ data.t = "float" /\ Num(data) % 10 # 0
    THEN Fail(<<Entry(path, "Expected integer")>>)
    ELSE LET val == Num(data)
         IN IF self.min_val # VNone /\ BelowMin(val, self.min_val.n)
            THEN Fail(<<Entry(path, "Must be >= " \o FloatStr(self.min_val.n))>>)
            ELSE IF self.max_val # VNone /\ val > self.max_val.n
            THEN Fail(<<Entry(path, "Must be <= " \o FloatStr(self.max_val.n))>>)
            ELSE IF self.exclusive_min_val # VNone /\ val <= self.exclusive_min_val.n
            THEN Fail(<<Entry(path, "Must be > " \o FloatStr(self.exclusive_min_val.n))>>)
            ELSE IF self.exclusive_max_val # VNone /\ val >= self.exclusive_max_val.n
            THEN Fail(<<Entry(path, "Must be < " \o FloatStr(self.exclusive_max_val.n))>>)
            ELSE IF self.step_val # VNone /\ self.step_val.n = 0
            THEN Crash("ZeroDivisionError")
            ELSE IF self.step_val # VNone /\ PyMod(val, self.step_val.n) # 0
            THEN Fail(<<Entry(path, "Must be multiple of " \o FloatStr(self.step_val.n))>>)
            \* return self.number_type(val)
            ELSE Ok([t |-> self.number_type, n |-> val])

\* StringValidator.validate
StringValidate(self, data, path) ==
    IF data.t # "str" THEN Fail(<<Entry(path, "Invalid type")>>)
    ELSE LET val == data.s
         IN IF self.min_len # VNone /\ Tenths(Len(val)) < self.min_len.n
            THEN Fail(<<Entry(path, "Length must be >= " \o IntStr(self.min_len.n \div 10))>>)
            ELSE IF self.max_len # VNone /\ Tenths(Len(val)) > self.max_len.n
            THEN Fail(<<Entry(path, "Length must be <= " \o IntStr(self.max_len.n \div 10))>>)
            ELSE IF /\ Truthy(self.pattern) /\ self.pattern.t = "str"
                    /\ ~ReSearch(self.pattern.s, val)
            THEN Fail(<<Entry(path, "Pattern mismatch")>>)
            ELSE IF self.format = VStr("email") /\ ~Contains(val, "@")
            THEN Fail(<<Entry(path, "Invalid email")>>)
            ELSE IF self.format = VStr("uuid") /\ ~IsUuid(val)
            THEN Fail(<<Entry(path, "Invalid UUID")>>)
            ELSE Ok(data)

\* LiteralValidator.validate
LiteralValidate(self, data, path) ==
    IF \E i \in DOMAIN self.allowed_values : PyEq(data, self.allowed_values[i])
    THEN Ok(data)
    ELSE Fail(<<Entry(path, "Expected one of: " \o JoinRepr(self.allowed_values, 1))>>)

\* two elements of the sequence are equal: "len(set(data)) != len(data)" and
\* the pairwise comparison that replaces it for unhashable elements
HasDuplicate(items) ==
    \E i, j \in DOMAIN items : i < j /\ PyEq(items[i], items[j])

\* "len(data) > len(self.item_validator)": a short input let through
ArityMismatch_long(n, expected) == n > expected
\* "len(data) != len(self.item_validator)"
ArityMismatch(n, expected) == n # expected

\* the checks of CollectionValidator.validate that come before the items
CollectionHead(self, data, path) ==
    LET c == self.constraints
        lo == ToInt(Get(c, "min_items"))
        hi == ToInt(Get(c, "max_items"))
    IN IF ~IsInstance(data, {"list", "tuple"})
       THEN Fail(<<Entry(path, "Invalid type")>>)
       ELSE IF "min_items" \in DOMAIN c /\ ~lo.ok THEN Crash("ValueError")
       ELSE IF "min_items" \in DOMAIN c /\ Len(data.items) < lo.n
       THEN Fail(<<Entry(path, "Min items: " \o IntStr(lo.n))>>)
       ELSE IF "max_items" \in DOMAIN c /\ ~hi.ok THEN Crash("ValueError")
       ELSE IF "max_items" \in DOMAIN c /\ Len(data.items) > hi.n
       THEN Fail(<<Entry(path, "Max items: " \o IntStr(hi.n))>>)
       ELSE IF /\ (Truthy(Get(c, "unique")) \/ Truthy(Get(c, "unique_items")))
               /\ HasDuplicate(data.items)
       THEN Fail(<<Entry(path, "Duplicate items found")>>)
       ELSE IF /\ self.item_kind = "many"
               /\ ArityMismatch(Len(data.items), Len(self.item_validator))
       THEN Fail(<<Entry(path, "Expected " \o IntStr(Len(self.item_validator)) \o " items")>>)
       ELSE Ok(VList(<<>>))

\* str(value) as the condition of a Conditional compares it
PyStr(v) ==
    CASE v.t = "str" -> v.s
      [] v.t = "int" -> IntStr(v.n \div 10)
      [] v.t = "float" -> FloatStr(v.n)
      [] v.t = "bool" -> IF v.b THEN "True" ELSE "False"
      [] OTHER -> "None"

\* a record that never rejects an unknown key
RejectsUnknown_never(constraints) == FALSE

\* "self.constraints.get('additional_properties') is False or
\*  self.constraints.get('strict')"
RejectsUnknown(constraints) ==
    Get(constraints, "additional_properties") = VBool(FALSE)
    \/ Truthy(Get(constraints, "strict"))

RECURSIVE Validate(_, _, _, _)
RECURSIVE ValidateItems(_, _, _, _, _, _)
RECURSIVE UnionResults(_, _, _, _, _)
RECURSIVE ObjectItems(_, _, _, _, _, _)
RECURSIVE CompositeRun(_, _, _, _, _)
RECURSIVE OrRun(_, _, _, _, _)
RECURSIVE NotValidate(_, _, _, _)
RECURSIVE ConditionalValidate(_, _, _, _)

\* the loop "validated_data.append(validator.validate(item, path=...))": the
\* first item that raises ends the loop
ValidateItems(self, data, path, context, i, validated_data) ==
    IF i > Len(data.items) THEN Ok(VList(validated_data))
    ELSE LET v == IF self.item_kind = "many" THEN self.item_validator[i]
                  ELSE self.item_validator[1]
             r == Validate(v, data.items[i], path \o IdxStr(i - 1), context)
         IN IF Accepted(r)
            THEN ValidateItems(self, data, path, context, i + 1,
                               Append(validated_data, r.val))
            ELSE r

\* the results of the alternatives that accept, in declared order
UnionResults(self, data, path, context, i) ==
    IF i > Len(self.validators) THEN <<>>
    ELSE <<Validate(self.validators[i], data, path, context)>>
         \o UnionResults(self, data, path, context, i + 1)

\* the loop over data.items() of ObjectValidator.validate: acc holds
\* final_data and errors
ObjectItems(self, data, path, i, final_data, errors) ==
    IF i > Len(data.keys) THEN [final_data |-> final_data, errors |-> errors, exc |-> "none"]
    ELSE LET key == data.keys[i]
             value == data.vals[key]
             declared == {f \in DOMAIN self.fields : self.fields[f].key = key}
             c == self.constraints
         IN IF declared # {}
            THEN LET r == Validate(self.fields[CHOOSE f \in declared : TRUE].validator,
                                   value, FieldPath(path, key), data)
                 IN IF Accepted(r)
                    THEN ObjectItems(self, data, path, i + 1,
                                     DictSet(final_data, key, r.val), errors)
                    ELSE IF Rejected(r)
                    THEN ObjectItems(self, data, path, i + 1, final_data,
                                     errors \o r.errors)
                    ELSE [final_data |-> final_data, errors |-> errors, exc |-> r.exc]
            ELSE IF RejectsUnknown(c)
            THEN ObjectItems(self, data, path, i + 1, final_data,
                    Append(errors, Entry(FieldPath(path, key), "Extra field not allowed")))
            ELSE ObjectItems(self, data, path, i + 1,
                             DictSet(final_data, key, value), errors)

\* the entries of "missing = self.required_keys - data.keys()"
MissingEntries(self, data, path) ==
    LET missing == SelectSeq(self.fields,
                       LAMBDA f : f.key \in self.required_keys
                                  /\ f.key \notin Range(data.keys))
    IN [i \in DOMAIN missing |->
          Entry(FieldPath(path, missing[i].key), "Field is required")]

\* "int(self.constraints.get('min_properties') or
\*      self.constraints.get('min_props') or 0)": [ok, n]
MinPropertiesLimit(c) ==
    IF Truthy(Get(c, "min_properties")) THEN ToInt(Get(c, "min_properties"))
    ELSE IF Truthy(Get(c, "min_props")) THEN ToInt(Get(c, "min_props"))
    ELSE [ok |-> TRUE, n |-> 0]

\* the error raised whether or not an entry was collected
AnyErrors_always(errors) == TRUE
\* "if errors:"
AnyErrors(errors) == errors # <<>>

\* ObjectValidator.validate
ObjectValidate(self, data, path) ==
    IF data.t # "dict" THEN Fail(<<Entry(path, "Invalid type")>>)
    ELSE LET c == self.constraints
             acc == ObjectItems(self, data, path, 1, EmptyDict,
                                MissingEntries(self, data, path))
             hasMin == "min_properties" \in DOMAIN c \/ "min_props" \in DOMAIN c
             limit == MinPropertiesLimit(c)
             errors == IF hasMin /\ limit.ok /\ Len(data.keys) < limit.n
                       THEN Append(acc.errors,
                                Entry(path, "Too few properties (min " \o IntStr(limit.n) \o ")"))
                       ELSE acc.errors
         IN IF acc.exc # "none" THEN Crash(acc.exc)
            ELSE IF hasMin /\ ~limit.ok THEN Crash("ValueError")
            ELSE IF AnyErrors(errors) THEN Fail(errors)
            ELSE Ok(acc.final_data)

\* UnionValidator.validate: every alternative runs; an exception that is not
\* a ValidationError leaves the loop
UnionValidate(self, data, path, context) ==
    LET all == UnionResults(self, data, path, context, 1)
        valid_results == SelectSeq(all, Accepted)
        crashed == SelectSeq(all, LAMBDA r : ~Accepted(r) /\ ~Rejected(r))
    IN IF crashed # <<>> THEN crashed[1]
       ELSE IF self.mode = "one_of"
       THEN IF Len(valid_results) = 1 THEN Ok(valid_results[1].val)
            ELSE IF Len(valid_results) = 0
            THEN Fail(<<Entry(path, "No match for OneOf")>>)
            ELSE Fail(<<Entry(path, "Multiple matches for OneOf")>>)
       ELSE IF valid_results # <<>> THEN Ok(valid_results[1].val)
       ELSE Fail(<<Entry(path, "No match for Union")>>)

\* CompositeValidator.validate: "val = v.validate(val, path, context)"
CompositeRun(self, val, path, context, i) ==
    IF i > Len(self.validators) THEN Ok(val)
    ELSE LET r == Validate(self.validators[i], val, path, context)
         IN IF Accepted(r) THEN CompositeRun(self, r.val, path, context, i + 1)
            ELSE r

\* Or: the clauses in order, the first that succeeds wins
OrRun(self, data, path, context, i) ==
    IF i > Len(self.validators) THEN Fail(<<Entry(path, "OR check failed")>>)
    ELSE LET r == Validate(self.validators[i], data, path, context)
         IN IF Rejected(r) THEN OrRun(self, data, path, context, i + 1)
            ELSE IF Accepted(r) THEN Ok(data) ELSE r

\* Not: the wrapped clause runs in isolation and its verdict is negated
NotValidate(self, data, path, context) ==
    LET r == Validate(self.validator, data, path, context)
    IN IF Accepted(r) THEN Fail(<<Entry(path, "NOT check failed")>>)
       ELSE IF Rejected(r) THEN Ok(data) ELSE r

\* the condition "field==literal" holds of the record context: the field
\* named has the string form literal
ConditionHolds(condition, context) ==
    LET eq == IndexOf(condition, "=", 1)
        field == Strip(SubSeq(condition, 1, eq - 1))
        literal == Strip(SubSeq(condition, eq + 2, Len(condition)))
    IN context.t = "dict" /\ PyStr(DictGet(context, field)) = literal

\* Conditional: the wrapped clause applies when the condition holds of the
\* enclosing record
ConditionalValidate(self, data, path, context) ==
    IF ConditionHolds(self.condition, context)
    THEN Validate(self.validator, data, path, context)
    ELSE Ok(data)

Validate(self, data, path, context) ==
    CASE self.cls = "AnyValidator" -> Ok(data)
      [] self.cls = "NumberValidator" -> NumberValidate(self, data, path)
      [] self.cls = "StringValidator" -> StringValidate(self, data, path)
      [] self.cls = "LiteralValidator" -> LiteralValidate(self, data, path)
      [] self.cls = "CollectionValidator" ->
            LET head == CollectionHead(self, data, path)
            IN IF Accepted(head)
               THEN ValidateItems(self, data, path, context, 1, <<>>)
               ELSE head
      [] self.cls = "UnionValidator" -> UnionValidate(self, data, path, context)
      [] self.cls = "ObjectValidator" -> ObjectValidate(self, data, path)
      [] self.cls = "CompositeValidator" -> CompositeRun(self, data, path, context, 1)
      [] self.cls = "NotValidator" -> NotValidate(self, data, path, context)
      [] self.cls = "OrValidator" -> OrRun(self, data, path, context, 1)
      [] self.cls = "ConditionalValidator" ->
            ConditionalValidate(self, data, path, context)

(***************************************************************************)
(* codegen.py: the generated Python text.  A line of generated code is a   *)
(* record: lvl is the number of indentation units in front of it, op the   *)
(* statement, cond the condition of an "if", var the variable it tests or  *)
(* assigns, src the variable it reads, arg a constant written into the     *)
(* text, path the path expression and msg the message of a "raise".        *)
(***************************************************************************)
Line(lvl, op, cond, var, src, arg, path, msg) ==
    [lvl |-> lvl, op |-> op, cond |-> cond, var |-> var, src |-> src,
     arg |-> arg, path |-> path, msg |-> msg]

\* a path expression is a sequence of terms joined by "+": the variable
\* path, a quoted text, or the f-string f'[{_idx}]'
PVar == [p |-> "var", s |-> ""]
PLit(s) == [p |-> "lit", s |-> s]
PIdx == [p |-> "idx", s |-> "_idx"]

\* "{ind}if <cond>:"
IfLine(lvl, cond, var, arg) == Line(lvl, "if", cond, var, "", arg, <<>>, "")
\* "{ind}    raise ValidationError(f'...', [{'path': <path>, 'message': '<msg>'}])"
RaiseLine(lvl, path, msg) == Line(lvl, "raise", "", "", "", "", path, msg)
\* "{ind}{var} = <constant>"
AssignLine(lvl, var, value) == Line(lvl, "assign", "", var, "", value, <<>>, "")
\* a statement of the generator that raises while the text is being built
GenFail(exc) == Line(0, "genfail", "", "", "", exc, <<>>, "")

\* _gen_number
_gen_number(var, path, num_type, constraints, indent) ==
    LET ind == indent
        isDict == constraints.kind = "dict"
        c == constraints.d
    IN <<IfLine(ind, "not_isinstance", var, {"int", "float"}),
         RaiseLine(ind + 1, path, "Invalid type")>>
       \o (IF num_type = "int"
           THEN <<IfLine(ind, "float_nonint", var, ""),
                  RaiseLine(ind + 1, path, "Expected integer")>>
           ELSE <<>>)
       \o (IF isDict /\ "min" \in DOMAIN c
           THEN <<IfLine(ind, "lt", var, ValueStr(c["min"])),
                  RaiseLine(ind + 1, path, "Must be >= " \o ValueStr(c["min"]))>>
           ELSE <<>>)
       \o (IF isDict /\ "max" \in DOMAIN c
           THEN <<IfLine(ind, "gt", var, ValueStr(c["max"])),
                  RaiseLine(ind + 1, path, "Must be <= " \o ValueStr(c["max"]))>>
           ELSE <<>>)

\* _gen_string; constraints.get on the list of a complex parse raises
_gen_string(var, path, constraints, indent) ==
    LET ind == indent
        c == constraints.d
        min_len == GetOr(c, "min_length", "min_len")
        max_len == GetOr(c, "max_length", "max_len")
        pattern == GetOr(c, "regex", "pattern")
    IN <<IfLine(ind, "not_isinstance", var, {"str"}),
         RaiseLine(ind + 1, path, "Invalid type")>>
       \o (IF constraints.kind # "dict" THEN <<GenFail("AttributeError")>>
           ELSE (IF Truthy(min_len)
                 THEN <<IfLine(ind, "len_lt", var, ValueStr(min_len)),
                        RaiseLine(ind + 1, path, "Min length " \o ValueStr(min_len))>>
                 ELSE <<>>)
             \o (IF Truthy(max_len)
                 THEN <<IfLine(ind, "len_gt", var, ValueStr(max_len)),
                        RaiseLine(ind + 1, path, "Max length " \o ValueStr(max_len))>>
                 ELSE <<>>)
             \o (IF Truthy(pattern)
                 THEN IF pattern.t # "str" THEN <<GenFail("AttributeError")>>
                      ELSE <<IfLine(ind, "not_search", var, pattern.s),
                             RaiseLine(ind + 1, path, "Pattern mismatch")>>
                 ELSE <<>>))

\* repr of a Python list of scalars: str(_allowed)
ListStr(values) == "[" \o JoinRepr(values, 1) \o "]"

\* _gen_literal: the message is 'Must be one of ' + str(_allowed) at run time
_gen_literal(var, path, values, indent) ==
    LET ind == indent
    IN <<AssignLine(ind, "_allowed", VList(values)),
         IfLine(ind, "not_in_allowed", var, ""),
         Line(ind + 1, "raise", "", "", "_allowed", "", path, "Must be one of ")>>

\* {} as the constraints argument
NoConstraints == parse_constraints("")

RECURSIVE _generate_validator(_, _, _, _)
RECURSIVE GenFields(_, _, _, _, _, _, _)
RECURSIVE GenUnion(_, _, _, _, _)
RECURSIVE GenTupleItems(_, _, _, _, _)

\* the loop "for key, field_type in type_hints.items()" of _gen_object.  The
\* text of a line is written with ind, the validator of a field is generated
\* with indent; after a field that is not required indent is decremented and
\* ind keeps its value
GenFields(td_cls, i, var, path, indent, ind, lines) ==
    IF i > Len(td_cls.fields) THEN [lines |-> lines, ind |-> ind]
    ELSE LET key == td_cls.fields[i].key
             field_type == td_cls.fields[i].type
             field_var == var \o "__" \o key
             is_required == key \in RequiredKeys(td_cls)
             head == <<Line(ind, "get", "", field_var, var, key, <<>>, "")>>
                     \o (IF is_required
                         THEN <<IfLine(ind, "is_none", field_var, ""),
                                RaiseLine(ind + 1, Append(path, PLit("." \o key)),
                                          "Required")>>
                         ELSE <<IfLine(ind, "not_none", field_var, "")>>)
             indent1 == IF is_required THEN indent ELSE indent + 1
             ind1 == IF is_required THEN ind ELSE indent1
             field_path == IF path # <<PLit("")>> THEN Append(path, PLit("." \o key))
                           ELSE <<PLit(key)>>
             field_lines == _generate_validator(field_type, field_var, field_path, indent1)
         IN IF key = "_"
            THEN GenFields(td_cls, i + 1, var, path, indent, ind, lines)
            ELSE GenFields(td_cls, i + 1, var, path, indent, ind1,
                           lines \o head \o field_lines)

\* list(type_hints.keys()) without '_'
KnownKeys(td_cls) ==
    LET fs == DeclaredFields(td_cls)
    IN VList([i \in DOMAIN fs |-> VStr(fs[i].key)])

\* _gen_object
_gen_object(td_cls, var, path, constraints, indent) ==
    LET c == constraints.d
        body == GenFields(td_cls, 1, var, path, indent, indent,
                    <<IfLine(indent, "not_isinstance", var, {"dict"}),
                      RaiseLine(indent + 1, path, "Invalid type")>>)
        ind == body.ind
        min_props == GetOr(c, "min_properties", "min_props")
    IN body.lines
       \o (IF constraints.kind # "dict" THEN <<GenFail("AttributeError")>>
           ELSE (IF Truthy(Get(c, "strict")) \/ Get(c, "additional_properties") = VBool(FALSE)
                 THEN <<AssignLine(ind, "known_keys", KnownKeys(td_cls)),
                        Line(ind, "assign_extra", "", "extra_keys", var, "", <<>>, ""),
                        IfLine(ind, "truthy", "extra_keys", ""),
                        RaiseLine(ind + 1, path, "Extra fields not allowed")>>
                 ELSE <<>>)
             \o (IF Truthy(min_props)
                 THEN <<IfLine(ind, "len_lt", var, ValueStr(min_props)),
                        RaiseLine(ind + 1, path, "Min properties " \o ValueStr(min_props))>>
                 ELSE <<>>))

\* _gen_list
_gen_list(var, path, item_type, constraints, indent) ==
    LET ind == indent
        c == constraints.d
        min_items == Get(c, "min_items")
        max_items == Get(c, "max_items")
    IN <<IfLine(ind, "not_isinstance", var, {"list"}),
         RaiseLine(ind + 1, path, "Invalid type")>>
       \o (IF constraints.kind # "dict" THEN <<GenFail("AttributeError")>>
           ELSE (IF Truthy(min_items)
                 THEN <<IfLine(ind, "len_lt", var, ValueStr(min_items)),
                        RaiseLine(ind + 1, path, "Min " \o ValueStr(min_items) \o " items")>>
                 ELSE <<>>)
             \o (IF Truthy(max_items)
                 THEN <<IfLine(ind, "len_gt", var, ValueStr(max_items)),
                        RaiseLine(ind + 1, path, "Max " \o ValueStr(max_items) \o " items")>>
                 ELSE <<>>)
             \o (IF Truthy(Get(c, "unique"))
                 THEN <<IfLine(ind, "dup", var, ""),
                        RaiseLine(ind + 1, path, "Duplicate items found")>>
                 ELSE <<>>)
             \o <<Line(ind, "for", "", "_item", var, "_idx", <<>>, "")>>
             \o _generate_validator(item_type, "_item", Append(path, PIdx), indent + 1))

\* the loop "for i, union_type in enumerate(types)" of _gen_union
GenUnion(var, path, types, indent, i) ==
    IF i > Len(types) THEN <<>>
    ELSE <<Line(indent, "try", "", "", "", "", <<>>, "")>>
         \o _generate_validator(types[i], var, path, indent + 1)
         \o (IF i < Len(types)
             THEN <<Line(indent, "except_as", "", "_e", "", "", <<>>, ""),
                    Line(indent + 1, "append", "", "_union_errors", "_e", "", <<>>, "")>>
             ELSE <<Line(indent, "except", "", "", "", "", <<>>, ""),
                    RaiseLine(indent + 1, path, "No match")>>)
         \o GenUnion(var, path, types, indent, i + 1)

\* _gen_union
_gen_union(var, path, types, indent) ==
    <<AssignLine(indent, "_union_errors", VList(<<>>))>>
    \o GenUnion(var, path, types, indent, 1)

\* the loop "for i, item_type in enumerate(item_types)" of _gen_tuple
GenTupleItems(var, path, item_types, indent, i) ==
    IF i > Len(item_types) THEN <<>>
    ELSE LET temp_var == "_tuple_item_" \o IntStr(indent) \o "_" \o IntStr(i - 1)
         IN <<Line(indent, "index", "", temp_var, var, i - 1, <<>>, "")>>
            \o _generate_validator(item_types[i], temp_var,
                                   Append(path, PLit(IdxStr(i - 1))), indent)
            \o GenTupleItems(var, path, item_types, indent, i + 1)

\* _gen_tuple
_gen_tuple(var, path, item_types, constraints, indent) ==
    <<IfLine(indent, "not_isinstance", var, {"list", "tuple"}),
      RaiseLine(indent + 1, path, "Invalid type"),
      IfLine(indent, "len_ne", var, IntStr(Len(item_types))),
      RaiseLine(indent + 1, path, "Expected " \o IntStr(Len(item_types)) \o " items")>>
    \o GenTupleItems(var, path, item_types, indent, 1)

\* the '_' metadata of a TypedDict: constraints.update(meta_constraints)
MetaConstraints(schema) ==
    LET meta == MetaField(schema)
    IN IF meta.k = "Annotated"
       THEN parse_constraints(ConstraintStr(meta.meta, 1))
       ELSE NoConstraints

_generate_validator(schema, var_name, path_var, indent) ==
    CASE schema.k = "Annotated" ->
            LET base_type == schema.base
                constraints == parse_constraints(ConstraintStr(schema.meta, 1))
            IN CASE base_type.k \in {"int", "float"} ->
                       _gen_number(var_name, path_var, base_type.k, constraints, indent)
                 [] base_type.k = "str" ->
                       _gen_string(var_name, path_var, constraints, indent)
                 [] base_type.k = "TypedDict" ->
                       _gen_object(base_type, var_name, path_var, constraints, indent)
                 [] base_type.k = "list" ->
                       _gen_list(var_name, path_var, base_type.item, constraints, indent)
                 [] base_type.k = "tuple" ->
                       _gen_tuple(var_name, path_var, base_type.items, constraints, indent)
                 [] OTHER -> <<>>
      [] schema.k = "TypedDict" ->
            IF MetaConstraints(schema).kind # "dict" THEN <<GenFail("TypeError")>>
            ELSE _gen_object(schema, var_name, path_var, MetaConstraints(schema), indent)
      [] schema.k = "list" ->
            _gen_list(var_name, path_var, schema.item, NoConstraints, indent)
      [] schema.k = "tuple" ->
            _gen_tuple(var_name, path_var, schema.items, NoConstraints, indent)
      [] schema.k = "Union" -> _gen_union(var_name, path_var, schema.alts, indent)
      [] schema.k = "Literal" -> _gen_literal(var_name, path_var, schema.values, indent)
      [] schema.k \in {"int", "float"} ->
            _gen_number(var_name, path_var, schema.k, NoConstraints, indent)
      [] schema.k = "str" -> _gen_string(var_name, path_var, NoConstraints, indent)
      [] schema.k = "bool" ->
            <<Line(indent, "comment", "", "", "", "", <<>>, "")>>
      [] OTHER -> <<>>

(***************************************************************************)
(* Python: compiling and running the generated text                        *)
(***************************************************************************)
\* the statements that end with ':' and own the block that follows
Headers == {"def", "if", "for", "try", "except", "except_as", "else"}

\* the line after the block of line i: the next line that is not deeper
End(L, i) ==
    LET later == {j \in (i + 1)..Len(L) : L[j].lvl <= L[i].lvl}
    IN IF later = {} THEN Len(L) + 1 ELSE CHOOSE j \in later : \A k \in later : j <= k

RECURSIVE IndentScan(_, _, _)
\* the indentation stack of the tokenizer over lines i..: "" when the
\* indentation is right, or the name of the error
IndentScan(L, i, stack) ==
    IF i > Len(L)
    THEN IF L[Len(L)].op \in Headers THEN "IndentationError" ELSE ""
    ELSE LET prev == L[i - 1]
             cur == L[i]
             keep == SelectSeq(stack, LAMBDA n : n <= cur.lvl)
         IN IF prev.op \in Headers
            THEN IF cur.lvl > prev.lvl THEN IndentScan(L, i + 1, Append(stack, cur.lvl))
                 ELSE "IndentationError"
            ELSE IF cur.lvl > prev.lvl THEN "IndentationError"
            ELSE IF keep = <<>> \/ keep[Len(keep)] # cur.lvl THEN "IndentationError"
            ELSE IndentScan(L, i + 1, keep)

\* every try is followed by its except clause, every except clause follows a
\* try block and every else follows an except clause
TryPaired(L) ==
    /\ \A i \in DOMAIN L : L[i].op = "try" =>
          /\ End(L, i) <= Len(L)
          /\ L[End(L, i)].op \in {"except", "except_as"}
          /\ L[End(L, i)].lvl = L[i].lvl
    /\ \A j \in DOMAIN L : L[j].op \in {"except", "except_as"} =>
          \E i \in 1..(j - 1) : L[i].op = "try" /\ End(L, i) = j
    /\ \A j \in DOMAIN L : L[j].op = "else" =>
          \E i \in 1..(j - 1) : /\ L[i].op \in {"except", "except_as"}
                                 /\ End(L, i) = j /\ L[i].lvl = L[j].lvl

\* compile(code): "" or the exception that exec raises before running
SyntaxCheck(L) ==
    IF IndentScan(L, 2, <<0>>) # "" THEN IndentScan(L, 2, <<0>>)
    ELSE IF ~TryPaired(L) THEN "SyntaxError"
    ELSE ""

\* the outcome of running a block
Normal(env) == [out |-> "normal", env |-> env, res |-> NotRun]
Stopped(out, env, res) == [out |-> out, env |-> env, res |-> res]

Bound(env, name) == name \in DOMAIN env
Bind(env, name, v) == (name :> v) @@ env

\* a number written into the text: [ok, n] in tenths
PyLit(text) ==
    IF text = "True" THEN [ok |-> TRUE, n |-> Tenths(1)]
    ELSE IF text = "False" THEN [ok |-> TRUE, n |-> 0]
    ELSE ToFloat(VStr(text))

\* len(v) in tenths
PyLen(v) ==
    CASE v.t = "str" -> Tenths(Len(v.s))
      [] v.t \in {"list", "tuple"} -> Tenths(Len(v.items))
      [] v.t = "dict" -> Tenths(Len(v.keys))
      [] OTHER -> 0

Hashable(v) == v.t \notin {"list", "dict"}

\* the conditions that compare with a number written into the text
Comparisons == {"lt", "gt", "le", "ge", "len_lt", "len_gt", "len_ne", "not_multiple"}

\* the value of the condition of an "if" line: [exc, v]
Cond(ln, env) ==
    LET T(b) == [exc |-> "", v |-> b]
        X(e) == [exc |-> e, v |-> FALSE]
    IN IF ~Bound(env, ln.var) THEN X("UnboundLocalError")
       ELSE The({
            CASE ln.cond = "not_isinstance" -> T(~IsInstance(v, ln.arg))
              [] ln.cond = "float_nonint" -> T(v.t = "float" /\ v.n % 10 # 0)
              [] ln.cond \in {"lt", "gt"} ->
                    IF ~lit.ok THEN X("NameError")
                    ELSE T(IF ln.cond = "lt" THEN Num(v) < lit.n ELSE Num(v) > lit.n)
              [] ln.cond \in {"len_lt", "len_gt", "len_ne"} ->
                    IF ~lit.ok THEN X("NameError")
                    ELSE T(CASE ln.cond = "len_lt" -> PyLen(v) < lit.n
                             [] ln.cond = "len_gt" -> PyLen(v) > lit.n
                             [] OTHER -> PyLen(v) # lit.n)
              [] ln.cond = "not_search" -> T(~ReSearch(ln.arg, v.s))
              [] ln.cond = "is_none" -> T(v = VNone)
              [] ln.cond = "not_none" -> T(v # VNone)
              [] ln.cond = "truthy" -> T(Truthy(v))
              [] ln.cond = "dup" ->
                    IF \E k \in DOMAIN v.items : ~Hashable(v.items[k]) THEN X("TypeError")
                    ELSE T(HasDuplicate(v.items))
              [] ln.cond \in {"le", "ge"} ->
                    IF ~lit.ok THEN X("NameError")
                    ELSE T(IF ln.cond = "le" THEN Num(v) <= lit.n ELSE Num(v) >= lit.n)
              [] ln.cond = "not_multiple" ->
                    IF lit.n = 0 THEN X("ZeroDivisionError")
                    ELSE T(PyMod(Num(v), lit.n) # 0)
              [] ln.cond = "isinstance" -> T(IsInstance(v, ln.arg))
              [] ln.cond = "not_var" -> T(~Truthy(v))
              [] ln.cond = "str_eq" -> T(PyStr(v) = ln.arg)
              [] ln.cond = "not_contains" -> T(~Contains(v.s, ln.arg))
              [] ln.cond = "not_uuid" -> T(~IsUuid(v.s))
              [] ln.cond = "not_ipv4" -> T(~IsIPv4(v.s))
              [] ln.cond = "not_datetime" -> T(~IsDateTime(v.s))
              [] ln.cond = "not_uri" -> T(~IsUri(v.s))
              [] ln.cond = "not_in_allowed" ->
                    IF ~Bound(env, "_allowed") THEN X("UnboundLocalError")
                    ELSE T(~\E k \in DOMAIN env["_allowed"].items :
                               PyEq(v, env["_allowed"].items[k])) :
            v \in {env[ln.var]},
            lit \in {IF ln.cond \in Comparisons THEN PyLit(ln.arg)
                     ELSE [ok |-> FALSE, n |-> 0]}})

RECURSIVE EvalPath(_, _, _)
\* the value of a path expression
EvalPath(parts, i, env) ==
    IF i > Len(parts) THEN ""
    ELSE (CASE parts[i].p = "var" -> env["path"].s
            [] parts[i].p = "idx" -> IdxStr(env[parts[i].s].n \div 10)
            [] OTHER -> parts[i].s)
         \o EvalPath(parts, i + 1, env)

\* the variables a path expression reads are bound
PathBound(parts, env) ==
    \A i \in DOMAIN parts : parts[i].p = "idx" => Bound(env, parts[i].s)

\* set(var.keys()) - known_keys, in the order of the dict
ExtraKeys(d, known) ==
    VList(SelectSeq([i \in DOMAIN d.keys |-> VStr(d.keys[i])],
                    LAMBDA k : k \notin Range(known.items)))

RECURSIVE Exec(_, _, _, _)
RECURSIVE Statement(_, _, _, _)
RECURSIVE ForLoop(_, _, _, _, _)

\* the statements L[i] .. L[stop - 1] of one block, run in env
Exec(L, i, stop, env) == The({Statement(L, at, stop, in) : at \in {i}, in \in {env}})

\* the statement L[i] and the statements of the block after it
Statement(L, i, stop, env) ==
    IF i >= stop THEN Normal(env)
    ELSE
      LET ln == L[i]
          e == End(L, i)
          then(r) == IF r.out = "normal" THEN Exec(L, e, stop, r.env) ELSE r
          crash(exc) == Stopped("crash", env, Crash(exc))
      IN CASE ln.op = "if" ->
                LET c == Cond(ln, env)
                IN IF c.exc # "" THEN crash(c.exc)
                   ELSE IF c.v THEN The({then(r) : r \in {Exec(L, i + 1, e, env)}})
                   ELSE Exec(L, e, stop, env)
           [] ln.op = "raise" ->
                IF ~PathBound(ln.path, env) \/ (ln.src # "" /\ ~Bound(env, ln.src))
                THEN crash("UnboundLocalError")
                ELSE Stopped("raise", env,
                        Fail(<<Entry(EvalPath(ln.path, 1, env),
                                     IF ln.src = "" THEN ln.msg
                                     ELSE ln.msg \o ListStr(env[ln.src].items))>>))
           [] ln.op = "assign" -> Exec(L, i + 1, stop, Bind(env, ln.var, ln.arg))
           [] ln.op = "get" ->
                IF ~Bound(env, ln.src) THEN crash("UnboundLocalError")
                ELSE Exec(L, i + 1, stop,
                          Bind(env, ln.var, DictGet(env[ln.src], ln.arg)))
           [] ln.op = "index" ->
                IF ~Bound(env, ln.src) THEN crash("UnboundLocalError")
                ELSE IF ln.arg >= Len(env[ln.src].items) THEN crash("IndexError")
                ELSE Exec(L, i + 1, stop,
                          Bind(env, ln.var, env[ln.src].items[ln.arg + 1]))
           [] ln.op = "assign_extra" ->
                IF ~Bound(env, ln.src) \/ ~Bound(env, "known_keys")
                THEN crash("UnboundLocalError")
                ELSE Exec(L, i + 1, stop,
                          Bind(env, ln.var, ExtraKeys(env[ln.src], env["known_keys"])))
           [] ln.op = "append" ->
                IF ~Bound(env, ln.var) \/ ~Bound(env, ln.src)
                THEN crash("UnboundLocalError")
                ELSE Exec(L, i + 1, stop,
                          Bind(env, ln.var,
                               VList(Append(env[ln.var].items, env[ln.src]))))
           [] ln.op = "for" ->
                IF ~Bound(env, ln.src) THEN crash("UnboundLocalError")
                ELSE The({then(r) : r \in {ForLoop(L, i, env[ln.src].items, 1, env)}})
           [] ln.op = "try" ->
                LET e2 == End(L, e)
                    \* "else:" after the except clause runs when the block did not raise
                    hasElse == e2 < stop /\ L[e2].op = "else" /\ L[e2].lvl = ln.lvl
                    e3 == IF hasElse THEN End(L, e2) ELSE e2
                    \* "as <name>" binds the exception and unbinds it after the clause
                    henv(r) == IF L[e].op = "except_as"
                               THEN Bind(r.env, L[e].var, VStr("ValidationError"))
                               ELSE r.env
                    unbound(en) == [n \in DOMAIN en \ {L[e].var} |-> en[n]]
                    after(h) == IF h.out # "normal" THEN h
                                ELSE Exec(L, e3, stop,
                                          IF L[e].op = "except_as" THEN unbound(h.env)
                                          ELSE h.env)
                    handled(r) == The({after(h) : h \in {Exec(L, e + 1, e2, henv(r))}})
                    orelse(r) ==
                        The({IF o.out = "normal" THEN Exec(L, e3, stop, o.env) ELSE o :
                                o \in {Exec(L, e2 + 1, e3, r.env)}})
                    tried(r) == IF r.out = "raise" THEN handled(r)
                                ELSE IF r.out # "normal" THEN r
                                ELSE IF hasElse THEN orelse(r)
                                ELSE Exec(L, e2, stop, r.env)
                IN The({tried(r) : r \in {Exec(L, i + 1, e, env)}})
           [] ln.op = "return" ->
                IF ~Bound(env, ln.var) THEN crash("UnboundLocalError")
                ELSE Stopped("return", env, Ok(env[ln.var]))
           [] OTHER -> Exec(L, i + 1, stop, env)

\* "for <idx>, <item> in enumerate(var)": iteration k of the loop at line i
\* over seq, the items var had when the loop started
ForLoop(L, i, seq, k, env) ==
    IF k > Len(seq) THEN Normal(env)
    ELSE LET next(r) == IF r.out = "normal" THEN ForLoop(L, i, seq, k + 1, r.env)
                        ELSE r
         IN The({next(r) : r \in {Exec(L, i + 1, End(L, i),
                     Bind(Bind(env, L[i].arg, VInt(k - 1)), L[i].var, seq[k]))}})

\* validator_func(data): the call of a compiled function
CallProcedure(L, data) ==
    The({IF r.out = "normal" THEN Ok(VNone) ELSE r.res :
            r \in {Exec(L, 2, Len(L) + 1,
                        Bind(Bind(<<>>, "data", data), "path", VStr("")))}})

\* the text of CodegenCompiler.compile without the comment lines, which the
\* tokenizer drops
CodeOf(schema) ==
    SelectSeq(<<Line(0, "def", "", "", "", "", <<>>, "")>>
              \o _generate_validator(schema, "data", <<PVar>>, 1)
              \o <<Line(1, "return", "", "data", "", "", <<>>, "")>>,
              LAMBDA ln : ln.op # "comment")

\* the exception CodegenCompiler.compile ends with, "" when it returns
GenFailed(L) == SelectSeq(L, LAMBDA ln : ln.op = "genfail")
CompileExc(L) ==
    IF GenFailed(L) # <<>> THEN GenFailed(L)[1].arg ELSE SyntaxCheck(L)

\* compile(schema)(data) on a fresh CodegenCompiler
CodegenRun(schema, data) ==
    The({IF exc # "" THEN Crash(exc) ELSE CallProcedure(L, data) :
            L \in {CodeOf(schema)}, exc \in {CompileExc(CodeOf(schema))}})

\* compile(schema).validate(data) on a fresh SchemaCompiler
TreeRun(schema, data) ==
    LET Run(validator) == IF Failed(validator) THEN Crash(validator.exc)
                          ELSE Validate(validator, data, "", VNone)
    IN CHOOSE r \in {Run(validator) : validator \in {_build_validator(schema)}} : TRUE

(***************************************************************************)
(* tests/test_complex_schemas.py: the CodegenCompiler that threads the     *)
(* enclosing record as context and generates the '?', '!' and '|' clauses. *)
(* Its generators carry the suffix 2; constraints is the flat dict that    *)
(* _generate_validator builds from the leaf clauses.                       *)
(***************************************************************************)
\* "<var> = True" / "<var> = False"
BoolLine(lvl, var, b) == AssignLine(lvl, var, VBool(b))
\* the f-string f'[{<idx_var>}]' of an item path
PIdxOf(idx_var) == [p |-> "idx", s |-> idx_var]

\* one bound of _gen_number: "float(constraints[key])" written into the text
NumberBound(c, key, cond, word, var, path, ind) ==
    IF key \notin DOMAIN c THEN <<>>
    ELSE IF ~ToFloat(c[key]).ok THEN <<GenFail("ValueError")>>
    ELSE <<IfLine(ind, cond, var, FloatStr(ToFloat(c[key]).n)),
           RaiseLine(ind + 1, path, word \o FloatStr(ToFloat(c[key]).n))>>

\* _gen_number
_gen_number2(var, path, num_type, constraints, indent) ==
    LET ind == indent
        step == GetOr(constraints, "step", "multiple_of")
    IN <<IfLine(ind, "not_isinstance", var, {"int", "float"}),
         RaiseLine(ind + 1, path, "Invalid type")>>
       \o (IF num_type = "int"
           THEN <<IfLine(ind, "float_nonint", var, ""),
                  RaiseLine(ind + 1, path, "Expected integer")>>
           ELSE <<>>)
       \o NumberBound(constraints, "min", "lt", "Must be >= ", var, path, ind)
       \o NumberBound(constraints, "max", "gt", "Must be <= ", var, path, ind)
       \o NumberBound(constraints, "exclusive_min", "le", "Must be > ", var, path, ind)
       \o NumberBound(constraints, "exclusive_max", "ge", "Must be < ", var, path, ind)
       \o (IF ~Truthy(step) THEN <<>>
           ELSE IF ~ToFloat(step).ok THEN <<GenFail("ValueError")>>
           ELSE <<IfLine(ind, "not_multiple", var, FloatStr(ToFloat(step).n)),
                  RaiseLine(ind + 1, path,
                            "Must be multiple of " \o FloatStr(ToFloat(step).n))>>)

\* one length bound of _gen_string and _gen_list: "int(<value>)" in the text
LengthBound(value, cond, before, after, var, path, ind) ==
    IF ~Truthy(value) THEN <<>>
    ELSE IF ~ToInt(value).ok THEN <<GenFail("ValueError")>>
    ELSE <<IfLine(ind, cond, var, IntStr(ToInt(value).n)),
           RaiseLine(ind + 1, path, before \o IntStr(ToInt(value).n) \o after)>>

\* the "if fmt:" part of _gen_string
FormatLines(fmt, var, path, ind) ==
    CASE fmt = VStr("email") ->
            <<IfLine(ind, "not_contains", var, "@"),
              RaiseLine(ind + 1, path, "Invalid email")>>
      [] fmt = VStr("uuid") ->
            <<IfLine(ind, "not_uuid", var, ""),
              RaiseLine(ind + 1, path, "Invalid UUID")>>
      [] fmt = VStr("ipv4") ->
            <<IfLine(ind, "not_ipv4", var, ""),
              RaiseLine(ind + 1, path, "Invalid IPv4")>>
      [] fmt = VStr("date-time") ->
            <<IfLine(ind, "not_datetime", var, ""),
              RaiseLine(ind + 1, path, "Invalid date-time")>>
      [] fmt = VStr("uri") ->
            <<IfLine(ind, "not_uri", var, ""),
              RaiseLine(ind + 1, path, "Invalid URI")>>
      [] OTHER -> <<>>

\* _gen_string
_gen_string2(var, path, constraints, indent) ==
    LET ind == indent
        min_len == GetOr(constraints, "min_length", "min_len")
        max_len == GetOr(constraints, "max_length", "max_len")
        pattern == GetOr(constraints, "regex", "pattern")
    IN <<IfLine(ind, "not_isinstance", var, {"str"}),
         RaiseLine(ind + 1, path, "Invalid type")>>
       \o LengthBound(min_len, "len_lt", "Min length ", "", var, path, ind)
       \o LengthBound(max_len, "len_gt", "Max length ", "", var, path, ind)
       \o (IF ~Truthy(pattern) THEN <<>>
           \* pattern.replace on the True of a key without a value
           ELSE IF pattern.t # "str" THEN <<GenFail("AttributeError")>>
           ELSE <<IfLine(ind, "not_search", var, pattern.s),
                  RaiseLine(ind + 1, path, "Pattern mismatch")>>)
       \o FormatLines(Get(constraints, "format"), var, path, ind)

RECURSIVE SplitEq(_, _, _)
\* condition.split('==')
SplitEq(s, i, current) ==
    IF i > Len(s) THEN <<current>>
    ELSE IF i < Len(s) /\ SubSeq(s, i, i + 1) = "=="
    THEN <<current>> \o SplitEq(s, i + 2, "")
    ELSE SplitEq(s, i + 1, current \o Ch(s, i))

RECURSIVE _generate_validator2(_, _, _, _, _)
RECURSIVE _gen_complex_node(_, _, _, _, _, _)
RECURSIVE GenClauses(_, _, _, _, _, _, _)
RECURSIVE GenWrappers(_, _, _, _, _, _, _)
RECURSIVE GenFields2(_, _, _, _, _, _)
RECURSIVE GenUnion2(_, _, _, _, _, _)
RECURSIVE GenTupleItems2(_, _, _, _, _, _)

\* the lines of the clause a wrapper holds: the generator of the base type
\* for a leaf, _gen_complex_node for a wrapper
ClauseLines(node, var, path, context, base_type, indent) ==
    IF node.node = "Leaf"
    THEN LET c == (node.key :> node.value)
         IN IF base_type.k \in {"int", "float"}
            THEN _gen_number2(var, path, base_type.k, c, indent)
            ELSE IF base_type.k = "str" THEN _gen_string2(var, path, c, indent)
            ELSE <<>>
    ELSE _gen_complex_node(node, var, path, context, base_type, indent)

\* the loop "for sub_node in node.constraints" of the Or branch
GenClauses(nodes, i, var, path, context, base_type, indent) ==
    IF i > Len(nodes) THEN <<>>
    ELSE <<IfLine(indent, "not_var", "_or_success", ""),
           Line(indent + 1, "try", "", "", "", "", <<>>, "")>>
         \o ClauseLines(nodes[i], var, path, context, base_type, indent + 2)
         \o <<BoolLine(indent + 2, "_or_success", TRUE),
              Line(indent + 1, "except_as", "", "e", "", "", <<>>, ""),
              Line(indent + 2, "append", "", "_or_errors", "e", "", <<>>, "")>>
         \o GenClauses(nodes, i + 1, var, path, context, base_type, indent)

\* the clause asserted instead of negated: its failure is the failure
NotEnd_asserting(ind, path) ==
    <<Line(ind, "except", "", "", "", "", <<>>, ""),
      RaiseLine(ind + 1, path, "NOT check failed")>>
\* "except ValidationError: pass" and "else: raise ValidationError(...)"
NotEnd(ind, path) ==
    <<Line(ind, "except", "", "", "", "", <<>>, ""),
      Line(ind + 1, "pass", "", "", "", "", <<>>, ""),
      Line(ind, "else", "", "", "", "", <<>>, ""),
      RaiseLine(ind + 1, path, "NOT check failed")>>

_gen_complex_node(node, var, path, context, base_type, indent) ==
    LET ind == indent
    IN CASE node.node = "Conditional" ->
              LET kv == SplitEq(node.condition, 1, "")
              IN IF Len(kv) # 2 THEN <<GenFail("ValueError")>>
                 ELSE <<BoolLine(ind, "_cond_match", FALSE),
                        IfLine(ind, "isinstance", context, {"dict"}),
                        Line(ind + 1, "get", "", "_cond_ctx_val", context,
                             Strip(kv[1]), <<>>, ""),
                        IfLine(ind + 1, "str_eq", "_cond_ctx_val", Strip(kv[2])),
                        BoolLine(ind + 2, "_cond_match", TRUE),
                        IfLine(ind, "truthy", "_cond_match", "")>>
                      \o ClauseLines(node.constraint, var, path, context,
                                     base_type, indent + 1)
         [] node.node = "Not" ->
              <<Line(ind, "try", "", "", "", "", <<>>, "")>>
              \o ClauseLines(node.constraint, var, path, context, base_type, indent + 1)
              \o NotEnd(ind, path)
         [] node.node = "Or" ->
              <<AssignLine(ind, "_or_errors", VList(<<>>)),
                BoolLine(ind, "_or_success", FALSE)>>
              \o GenClauses(node.constraints, 1, var, path, context, base_type, indent)
              \o <<IfLine(ind, "not_var", "_or_success", ""),
                   RaiseLine(ind + 1, path, "OR check failed")>>
         [] OTHER -> <<>>

\* "for wrapper in wrappers: lines.extend(self._gen_complex_node(...))"
GenWrappers(wrappers, i, var, path, context, base_type, indent) ==
    IF i > Len(wrappers) THEN <<>>
    ELSE _gen_complex_node(wrappers[i], var, path, context, base_type, indent)
         \o GenWrappers(wrappers, i + 1, var, path, context, base_type, indent)

\* the loop "for key, field_type in type_hints.items()" of _gen_object: the
\* lines of a field that is not required are one level deeper, under
\* "if <field_var> is not None:"
GenFields2(td_cls, i, var, path, indent, lines) ==
    IF i > Len(td_cls.fields) THEN lines
    ELSE LET key == td_cls.fields[i].key
             field_type == td_cls.fields[i].type
             field_var == var \o "__" \o key
             is_required == key \in RequiredKeys(td_cls)
             head == <<Line(indent, "get", "", field_var, var, key, <<>>, "")>>
                     \o (IF is_required
                         THEN <<IfLine(indent, "is_none", field_var, ""),
                                RaiseLine(indent + 1, Append(path, PLit("." \o key)),
                                          "Required")>>
                         ELSE <<IfLine(indent, "not_none", field_var, "")>>)
             field_path == IF path # <<PLit("")>> THEN Append(path, PLit("." \o key))
                           ELSE <<PLit(key)>>
             field_lines == _generate_validator2(field_type, field_var, field_path, var,
                                IF is_required THEN indent ELSE indent + 1)
         IN IF key = "_"
            THEN GenFields2(td_cls, i + 1, var, path, indent, lines)
            ELSE GenFields2(td_cls, i + 1, var, path, indent,
                            lines \o head \o field_lines)

\* _gen_object
_gen_object2(td_cls, var, path, context, constraints, indent) ==
    LET ind == indent
        c == constraints
    IN GenFields2(td_cls, 1, var, path, indent,
           <<IfLine(ind, "not_isinstance", var, {"dict"}),
             RaiseLine(ind + 1, path, "Invalid type")>>)
       \o (IF Truthy(Get(c, "strict")) \/ Get(c, "additional_properties") = VBool(FALSE)
           THEN <<AssignLine(ind, "known_keys", KnownKeys(td_cls)),
                  Line(ind, "assign_extra", "", "extra_keys", var, "", <<>>, ""),
                  IfLine(ind, "truthy", "extra_keys", ""),
                  RaiseLine(ind + 1, path, "Extra fields not allowed")>>
           ELSE <<>>)
       \o LengthBound(GetOr(c, "min_properties", "min_props"), "len_lt",
                      "Min properties ", "", var, path, ind)

\* _gen_list: the loop variables are named after the indentation level
_gen_list2(var, path, context, item_type, constraints, indent) ==
    LET ind == indent
        idx_var == "_idx_" \o IntStr(indent)
        item_var == "_item_" \o IntStr(indent)
    IN <<IfLine(ind, "not_isinstance", var, {"list"}),
         RaiseLine(ind + 1, path, "Invalid type")>>
       \o LengthBound(Get(constraints, "min_items"), "len_lt", "Min ", " items",
                      var, path, ind)
       \o LengthBound(Get(constraints, "max_items"), "len_gt", "Max ", " items",
                      var, path, ind)
       \o (IF Truthy(Get(constraints, "unique"))
           THEN <<IfLine(ind, "dup", var, ""),
                  RaiseLine(ind + 1, path, "Duplicate items found")>>
           ELSE <<>>)
       \o <<Line(ind, "for", "", item_var, var, idx_var, <<>>, "")>>
       \o _generate_validator2(item_type, item_var, Append(path, PIdxOf(idx_var)),
                               context, indent + 1)

\* the loop "for i, union_type in enumerate(types)" of _gen_union
GenUnion2(var, path, context, types, indent, i) ==
    IF i > Len(types) THEN <<>>
    ELSE <<IfLine(indent, "not_var", "_union_match", ""),
           Line(indent + 1, "try", "", "", "", "", <<>>, "")>>
         \o _generate_validator2(types[i], var, path, context, indent + 2)
         \o <<BoolLine(indent + 2, "_union_match", TRUE),
              Line(indent + 1, "except_as", "", "_e", "", "", <<>>, ""),
              Line(indent + 2, "append", "", "_union_errors", "_e", "", <<>>, "")>>
         \o GenUnion2(var, path, context, types, indent, i + 1)

\* _gen_union
_gen_union2(var, path, context, types, indent) ==
    <<BoolLine(indent, "_union_match", FALSE),
      AssignLine(indent, "_union_errors", VList(<<>>))>>
    \o GenUnion2(var, path, context, types, indent, 1)
    \o <<IfLine(indent, "not_var", "_union_match", ""),
         RaiseLine(indent + 1, path, "No match")>>

\* the loop "for i, item_type in enumerate(item_types)" of _gen_tuple
GenTupleItems2(var, path, context, item_types, indent, i) ==
    IF i > Len(item_types) THEN <<>>
    ELSE LET temp_var == "_tuple_item_" \o IntStr(indent) \o "_" \o IntStr(i - 1)
         IN <<Line(indent, "index", "", temp_var, var, i - 1, <<>>, "")>>
            \o _generate_validator2(item_types[i], temp_var,
                                    Append(path, PLit(IdxStr(i - 1))), context, indent)
            \o GenTupleItems2(var, path, context, item_types, indent, i + 1)

\* _gen_tuple
_gen_tuple2(var, path, context, item_types, constraints, indent) ==
    <<IfLine(indent, "not_isinstance", var, {"list", "tuple"}),
      RaiseLine(indent + 1, path, "Invalid type"),
      IfLine(indent, "len_ne", var, IntStr(Len(item_types))),
      RaiseLine(indent + 1, path, "Expected " \o IntStr(Len(item_types)) \o " items")>>
    \o GenTupleItems2(var, path, context, item_types, indent, 1)

_generate_validator2(schema, var_name, path_var, context_var, indent) ==
    CASE schema.k = "Annotated" ->
            LET base_type == schema.base
                constraints == The({ConstraintsOf(parsed) :
                                   parsed \in {parse_constraints(ConstraintStr(schema.meta, 1))}})
                wrappers == WrappersOf(parse_constraints(ConstraintStr(schema.meta, 1)))
                base_lines ==
                    CASE base_type.k \in {"int", "float"} ->
                           _gen_number2(var_name, path_var, base_type.k, constraints, indent)
                      [] base_type.k = "str" ->
                           _gen_string2(var_name, path_var, constraints, indent)
                      [] base_type.k = "TypedDict" ->
                           _gen_object2(base_type, var_name, path_var, context_var,
                                        constraints, indent)
                      [] base_type.k = "list" ->
                           _gen_list2(var_name, path_var, context_var, base_type.item,
                                      constraints, indent)
                      [] base_type.k = "tuple" ->
                           _gen_tuple2(var_name, path_var, context_var, base_type.items,
                                       constraints, indent)
                      [] OTHER -> <<>>
            IN base_lines
               \o GenWrappers(wrappers, 1, var_name, path_var, context_var, base_type, indent)
      [] schema.k = "TypedDict" ->
            \* "if isinstance(parsed, dict): constraints.update(parsed)"
            _gen_object2(schema, var_name, path_var, context_var,
                         MetaConstraints(schema).d, indent)
      [] schema.k = "list" ->
            _gen_list2(var_name, path_var, context_var, schema.item, <<>>, indent)
      [] schema.k = "tuple" ->
            _gen_tuple2(var_name, path_var, context_var, schema.items, <<>>, indent)
      [] schema.k = "Union" ->
            _gen_union2(var_name, path_var, context_var, schema.alts, indent)
      [] schema.k = "Literal" -> _gen_literal(var_name, path_var, schema.values, indent)
      [] schema.k \in {"int", "float"} ->
            _gen_number2(var_name, path_var, schema.k, <<>>, indent)
      [] schema.k = "str" -> _gen_string2(var_name, path_var, <<>>, indent)
      [] schema.k = "bool" ->
            <<Line(indent, "comment", "", "", "", "", <<>>, "")>>
      [] schema.k = "NoneType" ->
            <<IfLine(indent, "not_none", var_name, ""),
              RaiseLine(indent + 1, path_var, "Must be None")>>
      [] schema.k = "NotRequired" ->
            _generate_validator2(schema.arg, var_name, path_var, context_var, indent)
      [] OTHER -> <<>>

\* the text of compile without the comment lines:
\* "def validate_<name>(data, path='', context=None):" ... "return data"
CodeOf2(schema) ==
    SelectSeq(<<Line(0, "def", "", "", "", "", <<>>, "")>>
              \o _generate_validator2(schema, "data", <<PVar>>, "context", 1)
              \o <<Line(1, "return", "", "data", "", "", <<>>, "")>>,
              LAMBDA ln : ln.op # "comment")

\* validator_func(data): path and context take their defaults
CallProcedure2(L, data) ==
    The({IF r.out = "normal" THEN Ok(VNone) ELSE r.res :
            r \in {Exec(L, 2, Len(L) + 1,
                        Bind(Bind(Bind(<<>>, "data", data), "path", VStr("")),
                             "context", VNone))}})

\* compile(schema)(data) on a fresh CodegenCompiler
CodegenRun2(schema, data) ==
    The({IF exc # "" THEN Crash(exc) ELSE CallProcedure2(L, data) :
            L \in {CodeOf2(schema)}, exc \in {CompileExc(CodeOf2(schema))}})

(***************************************************************************)
(* Runtime options.  core.py hands strip to the compiled validator and the *)
(* tests call validate with partial; the validators that read the options  *)
(* are written here from their specification: they are ObjectValidator,    *)
(* CollectionValidator and UnionValidator of validators.py with the        *)
(* options passed down to every child.                                     *)
(***************************************************************************)
PartialNone == [all |-> FALSE, paths |-> {}]
PartialAll == [all |-> TRUE, paths |-> {}]
PartialPaths(ps) == [all |-> FALSE, paths |-> ps]
Options(strip, partial) == [strip |-> strip, partial |-> partial]
NoOptions == Options(FALSE, PartialNone)

\* a record whose declared strip flag is ignored
StripDeclared_ignored(self) == FALSE

\* the strip flag a record declares in its own constraints
StripDeclared(self) == Truthy(Get(self.constraints, "strip"))

\* strip applied to the top-level record only
ChildOptions_top(options) == [options EXCEPT !.strip = FALSE]

\* the options the children of a node are validated with
ChildOptions(options) == options

\* the dotted name of field key of the record named prefix
FieldName(prefix, key) == IF prefix # "" THEN prefix \o "." \o key ELSE key

\* required keys that no option relaxes
FieldRequired_declared(self, key, options, prefix) == key \in self.required_keys

\* named paths compared with the bare field name, whatever the record
FieldRequired_unqualified(self, key, options, prefix) ==
    /\ key \in self.required_keys
    /\ ~options.partial.all
    /\ key \notin options.partial.paths

\* a declared field must be present in this call
FieldRequired(self, key, options, prefix) ==
    /\ key \in self.required_keys
    /\ ~options.partial.all
    /\ FieldName(prefix, key) \notin options.partial.paths

RECURSIVE Apply(_, _, _, _, _)
RECURSIVE ApplyItems(_, _, _, _, _, _, _)
RECURSIVE ApplyUnion(_, _, _, _, _, _)
RECURSIVE ApplyFields(_, _, _, _, _, _, _, _)

\* the elements of a sequence or the positions of a tuple
ApplyItems(self, data, path, options, prefix, i, validated_data) ==
    IF i > Len(data.items) THEN Ok(VList(validated_data))
    ELSE LET v == IF self.item_kind = "many" THEN self.item_validator[i]
                  ELSE self.item_validator[1]
             r == Apply(v, data.items[i], path \o IdxStr(i - 1),
                        ChildOptions(options), prefix)
         IN IF Accepted(r)
            THEN ApplyItems(self, data, path, options, prefix, i + 1,
                            Append(validated_data, r.val))
            ELSE r

\* the results of the alternatives of a union
ApplyUnion(self, data, path, options, prefix, i) ==
    IF i > Len(self.validators) THEN <<>>
    ELSE <<Apply(self.validators[i], data, path, ChildOptions(options), prefix)>>
         \o ApplyUnion(self, data, path, options, prefix, i + 1)

\* the keys of the input record in order: a declared field is validated, an
\* unknown key is dropped (strip), rejected (strict) or copied
ApplyFields(self, data, path, options, prefix, i, final_data, errors) ==
    IF i > Len(data.keys) THEN [final_data |-> final_data, errors |-> errors, exc |-> "none"]
    ELSE LET key == data.keys[i]
             value == data.vals[key]
             declared == {f \in DOMAIN self.fields : self.fields[f].key = key}
             next(fd, es) == ApplyFields(self, data, path, options, prefix, i + 1, fd, es)
         IN IF declared # {}
            THEN LET r == Apply(self.fields[CHOOSE f \in declared : TRUE].validator,
                                value, FieldPath(path, key), ChildOptions(options),
                                FieldName(prefix, key))
                 IN IF Accepted(r) THEN next(DictSet(final_data, key, r.val), errors)
                    ELSE IF Rejected(r) THEN next(final_data, errors \o r.errors)
                    ELSE [final_data |-> final_data, errors |-> errors, exc |-> r.exc]
            ELSE IF StripDeclared(self) \/ options.strip THEN next(final_data, errors)
            ELSE IF RejectsUnknown(self.constraints)
            THEN next(final_data,
                      Append(errors, Entry(FieldPath(path, key), "Extra field not allowed")))
            ELSE next(DictSet(final_data, key, value), errors)

\* a "condition ? required" clause is in force in this call
ConditionalInForce(cr, data, options, prefix) ==
    /\ ConditionHolds(cr.condition, data)
    /\ ~options.partial.all
    /\ FieldName(prefix, cr.key) \notin options.partial.paths

\* the entries of the fields that a "condition ? required" clause requires
\* and the record lacks
ConditionalMissing(self, data, path, options, prefix) ==
    LET absent == SelectSeq(self.conditional_required,
                      LAMBDA cr : /\ ConditionalInForce(cr, data, options, prefix)
                                  /\ cr.key \notin Range(data.keys))
    IN [i \in DOMAIN absent |->
          Entry(FieldPath(path, absent[i].key), "Field is required")]

\* a record validated with options
ApplyObject(self, data, path, options, prefix) ==
    IF data.t # "dict" THEN Fail(<<Entry(path, "Invalid type")>>)
    ELSE LET missing == SelectSeq(self.fields,
                            LAMBDA f : /\ FieldRequired(self, f.key, options, prefix)
                                       /\ f.key \notin Range(data.keys))
             acc == ApplyFields(self, data, path, options, prefix, 1, EmptyDict,
                        [i \in DOMAIN missing |->
                            Entry(FieldPath(path, missing[i].key), "Field is required")]
                        \o ConditionalMissing(self, data, path, options, prefix))
             c == self.constraints
             hasMin == "min_properties" \in DOMAIN c \/ "min_props" \in DOMAIN c
             limit == MinPropertiesLimit(c)
             errors == IF hasMin /\ limit.ok /\ Len(data.keys) < limit.n
                       THEN Append(acc.errors,
                                Entry(path, "Too few properties (min " \o IntStr(limit.n) \o ")"))
                       ELSE acc.errors
         IN IF acc.exc # "none" THEN Crash(acc.exc)
            ELSE IF hasMin /\ ~limit.ok THEN Crash("ValueError")
            ELSE IF errors # <<>> THEN Fail(errors)
            ELSE Ok(acc.final_data)

\* validator.validate(data) with the options of the call
Apply(self, data, path, options, prefix) ==
    CASE self.cls = "ObjectValidator" -> ApplyObject(self, data, path, options, prefix)
      [] self.cls = "CollectionValidator" ->
            LET head == CollectionHead(self, data, path)
            IN IF Accepted(head)
               THEN ApplyItems(self, data, path, options, prefix, 1, <<>>)
               ELSE head
      [] self.cls = "UnionValidator" ->
            LET all == ApplyUnion(self, data, path, options, prefix, 1)
                valid_results == SelectSeq(all, Accepted)
            IN IF self.mode = "one_of"
               THEN IF Len(valid_results) = 1 THEN Ok(valid_results[1].val)
                    ELSE IF Len(valid_results) = 0
                    THEN Fail(<<Entry(path, "No match for OneOf")>>)
                    ELSE Fail(<<Entry(path, "Multiple matches for OneOf")>>)
               ELSE IF valid_results # <<>> THEN Ok(valid_results[1].val)
               ELSE Fail(<<Entry(path, "No match for Union")>>)
      [] OTHER -> Validate(self, data, path, VNone)

(***************************************************************************)
(* Inputs of the backends                                                  *)
(***************************************************************************)
\* the longest sequence among the inputs
MaxLen == 2

Meta(text) == Field("_", TAnnotated(TAny, <<text>>))

Schemas ==
    {TInt,
     TUnion(<<TInt, TStr>>),
     TUnion(<<TStr, TInt>>),
     TAnnotated(TUnion(<<TInt, TStr>>), <<"one_of">>),
     TAnnotated(TUnion(<<TInt, TFloat>>), <<"one_of">>),
     TList(TInt),
     TTuple(<<TInt, TInt>>),
     TTypedDict("Pair", <<Field("a", TInt), Field("b", TInt)>>),
     TTypedDict("Flag", <<Field("a", TBool)>>),
     TTypedDict("Strict", <<Meta("strict"), Field("a", TInt)>>),
     TTypedDict("Closed", <<Meta("additional_properties=false"), Field("a", TStr)>>),
     TTypedDict("Opt", <<Meta("strict"), Field("a", TNotRequired(TInt)),
                         Field("b", TInt)>>)}

Scalars == {VNone, VBool(TRUE), VInt(5), VFloat(15), VStr("x")}

\* the sequences over S of length at most n
SeqsOf(S, n) == UNION {[1..k -> S] : k \in 0..n}

SequenceInputs ==
    LET xss == SeqsOf({VInt(1), VStr("a")}, MaxLen)
    IN {VList(xs) : xs \in xss} \cup {VTuple(xs) : xs \in xss}

\* the keys of the record inputs: two declared names and one that no schema
\* declares
Keys == <<"a", "b", "z">>
DictOf(f, ks) == VDict(SelectSeq(Keys, LAMBDA k : k \in ks), [k \in ks |-> f[k]])
DictInputs ==
    {DictOf(f, ks) : f \in [Range(Keys) -> {VInt(1), VStr("s"), VNone}],
                     ks \in SUBSET Range(Keys)}

Inputs == Scalars \cup SequenceInputs \cup DictInputs

(***************************************************************************)
(* Inputs of the facade: the schemas and records of the strip tests        *)
(***************************************************************************)
Inner == TTypedDict("Inner", <<Field("x", TInt)>>)
OuterWithStrip ==
    TTypedDict("OuterWithStrip",
        <<Meta("strip=True"), Field("name", TStr), Field("inner", Inner)>>)
OuterWithList ==
    TTypedDict("OuterWithList",
        <<Field("inner", Inner), Field("users", TList(Inner))>>)
FacadeSchemas == {OuterWithStrip, OuterWithList}

\* a record over the given keys: each key is absent or has one of its values
Absent == [t |-> "absent"]
RecordsOver(keys, values) ==
    LET ks == Range(keys)
        choice == [k \in ks |-> values[k] \cup {Absent}]
        fs == {f \in [ks -> UNION {choice[k] : k \in ks}] : \A k \in ks : f[k] \in choice[k]}
    IN {VDict(SelectSeq(keys, LAMBDA k : f[k] # Absent),
              [k \in {n \in ks : f[n] # Absent} |-> f[k]]) : f \in fs}

InnerInputs == RecordsOver(<<"x", "extra_inner">>,
                   [x |-> {VInt(1)}, extra_inner |-> {VStr("v")}])
UserLists ==
    LET us == {u \in InnerInputs : "x" \in Range(u.keys)}
    IN {VList(<<>>)} \cup {VList(<<u>>) : u \in us}
       \cup {VList(<<u, w>>) : u \in us, w \in us}

FacadeInputs(schema) ==
    IF schema = OuterWithStrip
    THEN RecordsOver(<<"name", "inner", "extra_outer">>,
             [name |-> {VStr("n")}, inner |-> InnerInputs, extra_outer |-> {VStr("v")}])
    ELSE RecordsOver(<<"inner", "users", "extra_outer">>,
             [inner |-> InnerInputs, users |-> UserLists, extra_outer |-> {VStr("v")}])

(***************************************************************************)
(* Inputs of the facade: the schemas and records of the partial tests and  *)
(* of the conditional test                                                 *)
(***************************************************************************)
Address == TTypedDict("Address", <<Field("city", TStr), Field("zip", TStr)>>)
User ==
    TTypedDict("User",
        <<Field("name", TStr), Field("age", TInt), Field("address", Address)>>)
Payment ==
    TTypedDict("Payment",
        <<Field("payment_type", TStr),
          Field("card_number",
                TAnnotated(TNotRequired(TStr), <<"payment_type==credit ? required">>))>>)
PartialSchemas == {User, Payment}

\* the partial arguments of the tests: names of fields, a dotted name of a
\* nested field, a name that no field has, and the name of a nested field
\* without its qualifier
PathSets ==
    {{}, {"age"}, {"address.zip"}, {"age", "address.zip"}, {"invalid", "age"}, {"zip"}}

PartialInputs(schema) ==
    IF schema = User
    THEN RecordsOver(<<"name", "age", "address">>,
             [name |-> {VStr("Al")}, age |-> {VInt(25)},
              address |-> RecordsOver(<<"city", "zip">>,
                              [city |-> {VStr("NY")}, zip |-> {VStr("12345")}])])
    ELSE RecordsOver(<<"payment_type", "card_number">>,
             [payment_type |-> {VStr("credit"), VStr("cash")},
              card_number |-> {VStr("1234")}])

(***************************************************************************)
(* State                                                                   *)
(***************************************************************************)
VARIABLES
    schema,     \* the schema handed to both compilers
    data,       \* the input value
    tree,       \* what SchemaCompiler().compile(schema).validate(data) gave
    gen,        \* what CodegenCompiler().compile(schema)(data) gave
    cache,      \* Pytastic.codegen._cache: schema -> compiled validator
    calls,      \* the number of Pytastic.validate calls made
    last,       \* the last Pytastic.validate call and its result
    prior,      \* the schema and the strip option of the call before it
    clause,     \* the constraint string handed to parse_constraints
    parse,      \* what parse_constraints(clause) gave
    compilers,  \* a SchemaCompiler and a CodegenCompiler: cache, counter, builds
    threads,    \* the compile call each thread is in
    returned,   \* the compile calls that returned, in order
    registry    \* Pytastic._registry and Pytastic._attr_cache

\* the state of the parser
parser == <<clause, parse>>

\* the compilers, their callers and the registry
objects == <<compilers, threads, returned, registry>>

vars == <<schema, data, tree, gen, cache, calls, last, prior, parser, objects>>

NoCall == [schema |-> TAny, data |-> VNone, options |-> NoOptions, result |-> NotRun]
NoPrior == [schema |-> TAny, strip |-> FALSE]

\* a new Pytastic object: empty caches, no call made
NewPytastic ==
    /\ cache = <<>>
    /\ calls = 0
    /\ last = NoCall
    /\ prior = NoPrior

\* a compiler after __init__: nothing cached or built, no object created
NewCompiler == [_cache |-> <<>>, _counter |-> 0, built |-> <<>>, heap |-> 0]
CompilerKinds == {"SchemaCompiler", "CodegenCompiler"}
Threads == {1, 2}
\* a thread outside compile
Idle == [pc |-> "idle", kind |-> "", schema |-> [k |-> "Any"], validator |-> 0]
\* no attribute of the Pytastic object looked up and called
NoLookup == [name |-> "", data |-> [t |-> "none"], after |-> 0,
             result |-> [exc |-> "notrun", val |-> [t |-> "none"], errors |-> <<>>]]
\* Pytastic() after __init__: the two dicts, the schemas registered so far in
\* the order of the register calls, and the last call vx.<name>(data) with
\* the number of register calls made before it
NewRegistry ==
    [_registry |-> <<>>, _attr_cache |-> <<>>, registered |-> <<>>, call |-> NoLookup]

\* new compilers, idle threads, an empty registry
NoObjects ==
    /\ compilers = [kind \in CompilerKinds |-> NewCompiler]
    /\ threads = [t \in Threads |-> Idle]
    /\ returned = <<>>
    /\ registry = NewRegistry

\* no string given to the parser, no compiler used
NoText ==
    /\ clause = ""
    /\ parse = NotRun
    /\ NoObjects

(***************************************************************************)
(* The two backends applied to one schema and one input                    *)
(***************************************************************************)
Init ==
    /\ schema \in Schemas
    /\ data \in Inputs
    /\ tree = NotRun
    /\ gen = NotRun
    /\ NewPytastic
    /\ NoText

\* SchemaCompiler().compile(schema).validate(data)
RunTree ==
    /\ tree = NotRun
    /\ tree' = TreeRun(schema, data)
    /\ UNCHANGED <<schema, data, gen, cache, calls, last, prior, parser, objects>>

\* CodegenCompiler().compile(schema)(data)
RunCodegen ==
    /\ gen = NotRun
    /\ gen' = CodegenRun(schema, data)
    /\ UNCHANGED <<schema, data, tree, cache, calls, last, prior, parser, objects>>

Next == RunTree \/ RunCodegen

Spec == Init /\ [][Next]_vars

(***************************************************************************)
(* core.py: calls of Pytastic.validate on one Pytastic object              *)
(***************************************************************************)
InitFacade ==
    /\ schema = TAny
    /\ data = VNone
    /\ tree = NotRun
    /\ gen = NotRun
    /\ NewPytastic
    /\ NoText

\* a validator that keeps the strip option of the call that compiled it
Compiled_baked(s, strip) ==
    LET v == _build_validator(s)
    IN IF strip /\ v.cls = "ObjectValidator"
       THEN [v EXCEPT !.constraints = ("strip" :> VBool(TRUE)) @@ @]
       ELSE v

\* the validator compile builds for a schema that is not cached: the options
\* of the call are not part of it
Compiled(s, strip) == _build_validator(s)

\* CodegenCompiler.compile: "if schema in self._cache: return self._cache[schema]"
CacheLookup(c, s, strip) == IF s \in DOMAIN c THEN c[s] ELSE Compiled(s, strip)

\* Pytastic.validate(schema, data, strip, partial)
PytasticValidate(s, d, options) ==
    /\ calls < MaxCalls
    /\ \E validator \in {CacheLookup(cache, s, options.strip)} :
          /\ cache' = (s :> validator) @@ cache
          /\ last' = [schema |-> s, data |-> d, options |-> options,
                      result |-> Apply(validator, d, "", options, "")]
    /\ calls' = calls + 1
    /\ prior' = [schema |-> last.schema, strip |-> last.options.strip]
    /\ UNCHANGED <<schema, data, tree, gen, parser, objects>>

NextFacade ==
    \E s \in FacadeSchemas : \E d \in FacadeInputs(s) :
        \E strip \in BOOLEAN : \E partial \in {PartialNone, PartialAll} :
            PytasticValidate(s, d, Options(strip, partial))

SpecFacade == InitFacade /\ [][NextFacade]_vars

\* calls of Pytastic.validate with a set of field paths as partial
NextPartial ==
    \E s \in PartialSchemas : \E d \in PartialInputs(s) : \E ps \in PathSets :
        PytasticValidate(s, d, Options(FALSE, PartialPaths(ps)))

SpecPartial == InitFacade /\ [][NextPartial]_vars

(***************************************************************************)
(* The constraint schemas of the tests and their inputs, given to the      *)
(* Validator tree and to the generator of tests/test_complex_schemas.py    *)
(***************************************************************************)
\* the conditional field written with NotRequired outside of Annotated
PaymentNotRequired ==
    TTypedDict("PaymentNotRequired",
        <<Field("payment_type", TStr),
          Field("card_number",
                TNotRequired(TAnnotated(TStr, <<"payment_type==credit ? required">>)))>>)
ConditionalSchemas == {Payment, PaymentNotRequired}

GeoLocation ==
    TTypedDict("GeoLocation",
        <<Field("lat", TAnnotated(TFloat, <<"min=-90; max=90">>)),
          Field("lng", TAnnotated(TFloat, <<"min=-180; max=180">>))>>)
\* a record with a nested record, a sequence and a tuple
Place ==
    TTypedDict("Place",
        <<Field("location", GeoLocation), Field("tags", TList(TStr)),
          Field("point", TTuple(<<TInt, TInt>>))>>)
PathSchemas == {Place}

Age == TAnnotated(TInt, <<"min=18; max=120">>)
Ratio == TAnnotated(TFloat, <<"exclusive_min=0; exclusive_max=1">>)
NumberSchemas == {Age, Ratio}

Username == TAnnotated(TStr, <<"min_len=3; max_len=5; regex=^[a-z0-9_]+$">>)
Infix == TAnnotated(TStr, <<"pattern=b">>)
StringSchemas == {Username, Infix}

Tags == TAnnotated(TList(TStr), <<"unique">>)
Rows == TAnnotated(TList(TList(TInt)), <<"unique">>)
Codes == TAnnotated(TList(TInt), <<"unique_items">>)
UniqueSchemas == {Tags, Rows, Codes}

Point == TTuple(<<TInt, TInt>>)
Config == TTypedDict("Config", <<Field("point", Point)>>)
TupleSchemas == {Point, Config}

Secret == TAnnotated(TStr, <<"!regex=^password$; min_len=1">>)
Password == TTypedDict("Password", <<Field("secret", Secret)>>)
NotMin == TAnnotated(TInt, <<"!min=5">>)
NotSchemas == {Secret, Password, NotMin}

ContactText == TAnnotated(TStr, <<"format=email | regex=^[0-9]+$">>)
Contact == TTypedDict("Contact", <<Field("contact", ContactText)>>)
Band == TAnnotated(TInt, <<"max=1 | min=5 | min=3">>)
OrSchemas == {ContactText, Contact, Band}

ConstraintSchemas ==
    ConditionalSchemas \cup PathSchemas \cup NumberSchemas \cup StringSchemas
    \cup UniqueSchemas \cup TupleSchemas \cup NotSchemas \cup OrSchemas

Numbers ==
    {VInt(0), VInt(1), VInt(2), VInt(3), VInt(4), VInt(5), VInt(17), VInt(18), VInt(120),
     VInt(121), VFloat(0), VFloat(5), VFloat(10), VFloat(175), VFloat(180)}
Texts ==
    {VStr(""), VStr("b"), VStr("ab"), VStr("abc"), VStr("a_1"), VStr("abcdef"),
     VStr("Ab!"), VStr("password"), VStr("passwords"), VStr("a@b"), VStr("123")}
\* lists of up to MaxLen + 1 items
ListsOf(S) == {VList(xs) : xs \in SeqsOf(S, MaxLen + 1)}
TuplesOf(S) == {VTuple(xs) : xs \in SeqsOf(S, MaxLen + 1)}

ConstraintInputs(s) ==
    CASE s \in ConditionalSchemas ->
            RecordsOver(<<"payment_type", "card_number">>,
                [payment_type |-> {VStr("credit"), VStr("cash")},
                 card_number |-> {VStr("1234"), VInt(5)}])
      [] s = Place ->
            RecordsOver(<<"location", "tags", "point">>,
                [location |-> RecordsOver(<<"lat", "lng">>,
                                  [lat |-> {VFloat(1000), VInt(45)}, lng |-> {VInt(0)}]),
                 tags |-> {VList(<<VStr("a")>>), VList(<<VStr("a"), VInt(5)>>)},
                 point |-> {VTuple(<<VInt(1), VInt(2)>>), VTuple(<<VInt(1), VStr("x")>>),
                            VTuple(<<VInt(1)>>)}])
      [] s \in NumberSchemas -> Numbers \cup {VBool(TRUE), VStr("x"), VNone}
      [] s \in StringSchemas -> Texts \cup {VInt(5), VNone}
      [] s = Tags -> ListsOf({VStr("a"), VStr("b")})
      [] s = Rows -> ListsOf({VList(<<>>), VList(<<VInt(1)>>)})
      [] s = Codes -> ListsOf({VInt(1), VInt(2)})
      [] s = Point -> TuplesOf({VInt(1), VStr("x")}) \cup ListsOf({VInt(1), VStr("x")})
      [] s = Config ->
            RecordsOver(<<"point">>, [point |-> TuplesOf({VInt(1), VStr("x")})])
      [] s = Password -> RecordsOver(<<"secret">>, [secret |-> Texts \cup {VInt(5)}])
      [] s = Contact -> RecordsOver(<<"contact">>, [contact |-> Texts \cup {VInt(5)}])
      [] s \in {Secret, ContactText} -> Texts \cup {VInt(5), VNone}
      [] OTHER -> Numbers \cup {VStr("x"), VNone}

\* one schema of the catalogue and one input for it
InitConstraints ==
    /\ schema \in ConstraintSchemas
    /\ data \in ConstraintInputs(schema)
    /\ tree = NotRun
    /\ gen = NotRun
    /\ NewPytastic
    /\ NoText

\* CodegenCompiler().compile(schema)(data) with the generator that takes the
\* context
RunCodegen2 ==
    /\ gen = NotRun
    /\ gen' = CodegenRun2(schema, data)
    /\ UNCHANGED <<schema, data, tree, cache, calls, last, prior, parser, objects>>

NextConstraints == RunTree \/ RunCodegen2

SpecConstraints == InitConstraints /\ [][NextConstraints]_vars

(***************************************************************************)
(* Properties of the backends (specification Spec)                         *)
(***************************************************************************)
BothRan == tree # NotRun /\ gen # NotRun

\* C1: for every schema and input the compiled procedure accepts the input
\* if and only if the Validator tree accepts it, and when both accept they
\* return equal values.
C1_BackendsAgree ==
    BothRan =>
        /\ Accepted(gen) <=> Accepted(tree)
        /\ (Accepted(gen) /\ Accepted(tree)) => PyEq(gen.val, tree.val)

\* the alternatives of the union under test, each run alone on the input
AltResults(Run(_, _), alts) == [i \in DOMAIN alts |-> Run(alts[i], data)]
AcceptingAlts(Run(_, _), alts) ==
    {i \in DOMAIN alts : Accepted(AltResults(Run, alts)[i])}
FirstOf(S) == CHOOSE i \in S : \A j \in S : i <= j

\* result r of a backend is what any_of asks for
AnyOfHolds(Run(_, _), r, noMatch) ==
    LET acc == AcceptingAlts(Run, schema.alts)
    IN IF acc # {}
       THEN Accepted(r) /\ r.val = AltResults(Run, schema.alts)[FirstOf(acc)].val
       ELSE Rejected(r) /\ r.errors = <<Entry("", noMatch)>>

\* C2: a union in any_of mode accepts a value if and only if at least one
\* alternative accepts it, returns the result of the first accepting
\* alternative in declared order, and raises a single 'no match' error at
\* the union's path when no alternative accepts; in both backends.
C2_AnyOfFirstMatch ==
    schema.k = "Union" =>
        /\ tree # NotRun => AnyOfHolds(TreeRun, tree, "No match for Union")
        /\ gen # NotRun => AnyOfHolds(CodegenRun, gen, "No match")

OneOfSchema ==
    /\ schema.k = "Annotated"
    /\ schema.base.k = "Union"
    /\ schema.meta = <<"one_of">>

\* result r of a backend is what one_of asks for
OneOfHolds(Run(_, _), r, noMatch) ==
    LET acc == AcceptingAlts(Run, schema.base.alts)
    IN CASE Cardinality(acc) = 1 ->
               Accepted(r) /\ r.val = AltResults(Run, schema.base.alts)[FirstOf(acc)].val
         [] Cardinality(acc) = 0 ->
               Rejected(r) /\ r.errors = <<Entry("", noMatch)>>
         [] OTHER ->
               /\ Rejected(r) /\ Len(r.errors) = 1
               /\ r.errors[1].path = "" /\ r.errors[1].message # noMatch

\* C3: a union with the one_of flag gives the result of the only accepting
\* alternative, raises 'no match' when none accepts and a distinct error
\* when two or more accept, with whichever backend executes the schema.
C3_OneOf ==
    OneOfSchema =>
        /\ tree # NotRun => OneOfHolds(TreeRun, tree, "No match for OneOf")
        /\ gen # NotRun => OneOfHolds(CodegenRun, gen, "No match")

\* the path of an entry of a child, seen from the container at prefix
Join(prefix, p) ==
    IF p = "" THEN prefix
    ELSE IF prefix = "" \/ Head(p) = "[" THEN prefix \o p
    ELSE prefix \o "." \o p

\* every entry of the child run alone is an entry of the container's error
Carries(r, child, prefix) ==
    \A e \in EntrySet(child) : Entry(Join(prefix, e.path), e.message) \in EntrySet(r)

\* C4: when a record, a sequence or a tuple has several invalid children the
\* error raised holds the entries of every invalid child.
C4_AllChildErrors ==
    tree # NotRun =>
        CASE schema.k = "list" /\ data.t \in {"list", "tuple"} ->
                \A i \in DOMAIN data.items :
                    Carries(tree, TreeRun(schema.item, data.items[i]), IdxStr(i - 1))
          [] /\ schema.k = "tuple" /\ data.t \in {"list", "tuple"}
             /\ Len(data.items) = Len(schema.items) ->
                \A i \in DOMAIN data.items :
                    Carries(tree, TreeRun(schema.items[i], data.items[i]), IdxStr(i - 1))
          [] schema.k = "TypedDict" /\ data.t = "dict" ->
                \A i \in DOMAIN schema.fields :
                    LET f == schema.fields[i]
                    IN (f.key # "_" /\ f.key \in Range(data.keys)) =>
                          Carries(tree, TreeRun(f.type, data.vals[f.key]), f.key)
          [] OTHER -> TRUE

\* C5: a required field counts as present only if its key is in the input
\* and its value is not null: an absent key or a null value fails with a
\* required-field-missing entry at the record's path followed by the name.
C5_RequiredNonNull ==
    (tree # NotRun /\ schema.k = "TypedDict" /\ data.t = "dict") =>
        \A key \in RequiredKeys(schema) \ {"_"} :
            (key \notin Range(data.keys) \/ data.vals[key] = VNone) =>
                /\ Rejected(tree)
                /\ Entry(key, "Field is required") \in EntrySet(tree)

\* the keys of the input record that the schema does not declare
UnknownKeys == {k \in Range(data.keys) : k \notin FieldKeys(schema)}
\* the '_' field of the schema sets strict or additional_properties=false
ClosedSchema ==
    MetaField(schema) \in {TAnnotated(TAny, <<"strict">>),
                           TAnnotated(TAny, <<"additional_properties=false">>)}

Called == last.result # NotRun
\* the validator of the schema of the last call, built afresh
LastValidator == _build_validator(last.schema)

Declared(v) == {v.fields[i].key : i \in DOMAIN v.fields}
FieldValidator(v, key) ==
    v.fields[CHOOSE i \in DOMAIN v.fields : v.fields[i].key = key].validator

\* the schema declares strip=True in its '_' field
StripSchema(s) == s.k = "TypedDict" /\ MetaField(s) = TAnnotated(TAny, <<"strip=True">>)
\* the fields of s that hold a record which declares nothing in a '_' field
PlainRecordFields(s) ==
    {f \in Range(DeclaredFields(s)) : f.type.k = "TypedDict" /\ MetaField(f.type) = TAny}

RECURSIVE Stripped(_, _, _)
\* out is d without the keys that the records of v do not declare, at every
\* depth and in every element
Stripped(v, out, d) ==
    CASE v.cls = "ObjectValidator" ->
            /\ out.t = "dict"
            /\ Range(out.keys) = Range(d.keys) \cap Declared(v)
            /\ \A k \in Range(out.keys) :
                  Stripped(FieldValidator(v, k), out.vals[k], d.vals[k])
      [] v.cls = "CollectionValidator" ->
            /\ out.t = "list"
            /\ Len(out.items) = Len(d.items)
            /\ \A i \in DOMAIN out.items :
                  Stripped(IF v.item_kind = "many" THEN v.item_validator[i]
                           ELSE v.item_validator[1], out.items[i], d.items[i])
      [] OTHER -> PyEq(out, d)

RECURSIVE PresentValid(_, _, _)
\* every declared field that is present in d is valid, at every depth
PresentValid(v, d, options) ==
    CASE v.cls = "ObjectValidator" ->
            /\ d.t = "dict"
            /\ \A k \in Range(d.keys) \cap Declared(v) :
                  PresentValid(FieldValidator(v, k), d.vals[k], options)
            /\ (RejectsUnknown(v.constraints) /\ ~StripDeclared(v) /\ ~options.strip) =>
                  Range(d.keys) \subseteq Declared(v)
      [] v.cls = "CollectionValidator" ->
            /\ Accepted(CollectionHead(v, d, ""))
            /\ \A i \in DOMAIN d.items :
                  PresentValid(IF v.item_kind = "many" THEN v.item_validator[i]
                               ELSE v.item_validator[1], d.items[i], options)
      [] OTHER -> Accepted(Validate(v, d, "", VNone))

RECURSIVE MissingRequired(_, _, _, _)
\* the required fields of the record schema td, and of the records nested
\* in it, that the record d lacks: the dotted name and the path of each
MissingRequired(td, d, prefix, path) ==
    LET fs == DeclaredFields(td)
        here == {[name |-> FieldName(prefix, fs[i].key),
                  path |-> FieldPath(path, fs[i].key)] :
                     i \in {j \in DOMAIN fs : /\ fs[j].key \in RequiredKeys(td)
                                              /\ fs[j].key \notin Range(d.keys)}}
        nested == {i \in DOMAIN fs : /\ fs[i].type.k = "TypedDict"
                                     /\ fs[i].key \in Range(d.keys)
                                     /\ d.vals[fs[i].key].t = "dict"}
    IN here \cup UNION {MissingRequired(fs[i].type, d.vals[fs[i].key],
                                        FieldName(prefix, fs[i].key),
                                        FieldPath(path, fs[i].key)) : i \in nested}

RECURSIVE FieldNames(_, _)
\* the dotted names of the fields of td and of the records nested in it
FieldNames(td, prefix) ==
    LET fs == DeclaredFields(td)
    IN {FieldName(prefix, fs[i].key) : i \in DOMAIN fs}
       \cup UNION {FieldNames(fs[i].type, FieldName(prefix, fs[i].key)) :
                      i \in {j \in DOMAIN fs : fs[j].type.k = "TypedDict"}}

RECURSIVE Unconditional(_)
\* no record of v has a "condition ? required" clause
Unconditional(v) ==
    CASE v.cls = "ObjectValidator" ->
            /\ v.conditional_required = <<>>
            /\ \A i \in DOMAIN v.fields : Unconditional(v.fields[i].validator)
      [] v.cls = "CollectionValidator" ->
            \A i \in DOMAIN v.item_validator : Unconditional(v.item_validator[i])
      [] OTHER -> TRUE

RequiredPaths(r) == {e.path : e \in {x \in EntrySet(r) : x.message = "Field is required"}}

HasField(d, key) == d.t = "dict" /\ key \in Range(d.keys)

\* some entry of r is reported at a path that ends with the field name
NamesField(r, key) ==
    \E e \in EntrySet(r) :
        /\ Len(e.path) >= Len(key)
        /\ SubSeq(e.path, Len(e.path) - Len(key) + 1, Len(e.path)) = key

\* C12: a field constrained with 'F==L ? required' is required exactly when
\* the sibling F has a value whose string form is L: with payment_type equal
\* to credit and card_number absent the generated procedure fails with an
\* error naming card_number, and with payment_type different from credit and
\* card_number absent it accepts the record.
C12_ConditionalRequired ==
    (/\ schema \in ConditionalSchemas /\ gen # NotRun
     /\ HasField(data, "payment_type") /\ ~HasField(data, "card_number")) =>
        IF PyStr(data.vals["payment_type"]) = "credit"
        THEN Rejected(gen) /\ NamesField(gen, "card_number")
        ELSE Accepted(gen)

\* the paths of Place and of the parts of its values, written from the root
PlacePaths ==
    {"", "location", "location.lat", "location.lng", "tags", "point"}
    \cup {"tags" \o IdxStr(i) : i \in 0..MaxLen} \cup {"point" \o IdxStr(i) : i \in 0..MaxLen}

\* the one invalid part of a Place value, "" when there is none or several
OnlyInvalid(d) ==
    LET full == /\ HasField(d, "location") /\ HasField(d, "tags") /\ HasField(d, "point")
                /\ HasField(d.vals["location"], "lat") /\ HasField(d.vals["location"], "lng")
        lat == d.vals["location"].vals["lat"] = VFloat(1000)
        tag == d.vals["tags"] = VList(<<VStr("a"), VInt(5)>>)
        pt == d.vals["point"] = VTuple(<<VInt(1), VStr("x")>>)
        arity == d.vals["point"] = VTuple(<<VInt(1)>>)
    IN IF ~full \/ arity THEN ""
       ELSE CASE lat /\ ~tag /\ ~pt -> "location.lat"
              [] ~lat /\ tag /\ ~pt -> "tags[1]"
              [] ~lat /\ ~tag /\ pt -> "point[1]"
              [] OTHER -> ""

PathsHold(r, d) ==
    /\ \A e \in EntrySet(r) : e.path \in PlacePaths
    /\ OnlyInvalid(d) # "" =>
           Rejected(r) /\ {e.path : e \in EntrySet(r)} = {OnlyInvalid(d)}

\* C13: an error of a field nested in records is reported at the dotted path
\* of the field names from the root, with no leading dot ('location.lat'),
\* and an error of element i of a sequence or tuple at the path of the
\* container followed by '[i]', in the tree and in the generated procedure.
C13_DottedPaths ==
    schema = Place =>
        /\ tree # NotRun => PathsHold(tree, data)
        /\ gen # NotRun => PathsHold(gen, data)

\* the bounds the number schemas of the catalogue state, in tenths
InBounds(s, x) ==
    IF s = Age THEN Tenths(18) <= x /\ x <= Tenths(120)
    ELSE 0 < x /\ x < Tenths(1)
\* a float with a fractional part is no value of an int schema
Integral(s, v) == s.base.k = "int" => ~(v.t = "float" /\ v.n % 10 # 0)
MinEntry == Entry("", "Must be >= 18.0")

NameChars == {Ch("abcdefghijklmnopqrstuvwxyz0123456789_", k) : k \in 1..37}
\* the texts the string schemas of the catalogue describe
Wellformed(s, text) ==
    IF s = Username
    THEN /\ 3 <= Len(text) /\ Len(text) <= 5
         /\ \A i \in 1..Len(text) : Ch(text, i) \in NameChars
    ELSE \E i \in 1..Len(text) : Ch(text, i) = "b"

\* C15: a text is accepted by a string schema if and only if its length is
\* within min_length and max_length and the pattern matches somewhere in it
\* (search, not full match); a value of another type is rejected as a type
\* mismatch, and a failing value produces exactly one error entry.
C15_StringAccepts ==
    (schema \in StringSchemas /\ tree # NotRun) =>
        /\ data.t = "str" => (Accepted(tree) <=> Wellformed(schema, data.s))
        /\ data.t # "str" => tree = Fail(<<Entry("", "Invalid type")>>)
        /\ ~Accepted(tree) => Rejected(tree) /\ Len(tree.errors) = 1
        /\ Accepted(tree) => tree.val = data

\* C15 witness: 'ab' was accepted by pattern=b, which matches at its second
\* character only
C15_Witness == schema = Infix /\ data = VStr("ab") /\ Accepted(tree)

EqualPair(items) == \E i, j \in DOMAIN items : i < j /\ PyEq(items[i], items[j])
DuplicateEntry == Entry("", "Duplicate items found")
\* r is the uniqueness error exactly when two elements of d are equal
UniqueHolds(r, d) ==
    IF EqualPair(d.items) THEN r = Fail(<<DuplicateEntry>>) ELSE Accepted(r)

\* C16: a sequence schema with the unique flag (unique or unique_items)
\* rejects an input with a uniqueness error at the sequence's path if and
\* only if two of its elements are equal, for hashable elements and for
\* elements that are not hashable, in the tree and in the generated procedure.
C16_UniqueItems ==
    schema \in UniqueSchemas =>
        /\ tree # NotRun => UniqueHolds(tree, data)
        /\ gen # NotRun => UniqueHolds(gen, data)

\* the positions of a Point value that hold no int
BadPositions(items) == {i \in DOMAIN items : ~IsInstance(items[i], {"int"})}
Least(S) == CHOOSE i \in S : \A j \in S : i <= j

\* the run r of a two-position tuple schema on the value v at path
ArityHolds(r, v, path) ==
    LET bad == BadPositions(v.items)
        at(i) == path \o IdxStr(i - 1)
    IN IF Len(v.items) # 2 THEN r = Fail(<<Entry(path, "Expected 2 items")>>)
       ELSE IF bad = {} THEN Accepted(r)
       ELSE /\ Rejected(r)
            /\ at(Least(bad)) \in {e.path : e \in EntrySet(r)}
            /\ \A e \in EntrySet(r) : \E i \in bad : e.path = at(i)

Settled(r, again) == Accepted(again) /\ PyEq(again.val, r.val)

\* C18: validation is idempotent on its own output: an accepted input with
\* output v makes the validation of v accepted with a value equal to v, and
\* the output of a valid input without unknown keys equals the input, a
\* tuple input included.
C18_Idempotent ==
    /\ (tree # NotRun /\ Accepted(tree)) =>
           Settled(tree, TreeRun(schema, tree.val)) /\ PyEq(tree.val, data)
    /\ (gen # NotRun /\ Accepted(gen)) =>
           Settled(gen, CodegenRun2(schema, gen.val)) /\ PyEq(gen.val, data)

Messages(r) == {e.message : e \in EntrySet(r)}
NotFailed(r) == Rejected(r) /\ Messages(r) = {"NOT check failed"}

\* the run r of '!regex=^password$; min_len=1' on a text
SecretHolds(r, text) ==
    /\ Accepted(r) <=> (text # "password" /\ Len(text) >= 1)
    /\ text = "password" => NotFailed(r)
    /\ text = "" => Rejected(r) /\ ~NotFailed(r)

\* C19: a Not wrapper on a value that passes the base type check fails
\* exactly when the wrapped clause accepts the value and succeeds exactly
\* when it rejects it, the inner error being discarded, and the other
\* clauses of the constraint string are still applied:
\* '!regex=^password$; min_len=1' rejects 'password' and accepts 'secret123'.
C19_NotWrapper ==
    gen # NotRun =>
        /\ (schema = Secret /\ data.t = "str") => SecretHolds(gen, data.s)
        /\ (/\ schema = Password /\ HasField(data, "secret")
            /\ data.vals["secret"].t = "str") =>
               SecretHolds(gen, data.vals["secret"].s)
        /\ (schema = NotMin /\ data.t = "int") =>
               /\ Accepted(gen) <=> Num(data) < Tenths(5)
               /\ Num(data) >= Tenths(5) => NotFailed(gen)

\* C19 witness: 'password' as the field of a record failed the Not check
\* and nothing else
C19_Witness ==
    /\ schema = Password /\ HasField(data, "secret")
    /\ data.vals["secret"] = VStr("password") /\ NotFailed(gen)

OrEntry(path) == Entry(path, "OR check failed")
\* some clause of 'format=email | regex=^[0-9]+$' accepts the text
ContactClause(text) ==
    \/ \E i \in 1..Len(text) : Ch(text, i) = "@"
    \/ Len(text) >= 1 /\ \A i \in 1..Len(text) : Ch(text, i) \in {Ch(Digits, k) : k \in 1..10}
\* some clause of 'max=1 | min=5 | min=3' accepts the number
BandClause(x) == x <= Tenths(1) \/ x >= Tenths(5) \/ x >= Tenths(3)

\* the run r on a value at path of which some clause accepts, or none
OrHolds(r, accepts, path) ==
    IF accepts THEN Accepted(r) ELSE r = Fail(<<OrEntry(path)>>)

\* C20: an Or wrapper 'a | b | ...' accepts a value if and only if at least
\* one of its clauses accepts it, and when every clause rejects the value
\* it raises one 'OR failed' error at the value's path.
C20_OrWrapper ==
    gen # NotRun =>
        /\ (schema = ContactText /\ data.t = "str") =>
               OrHolds(gen, ContactClause(data.s), "")
        /\ (/\ schema = Contact /\ HasField(data, "contact")
            /\ data.vals["contact"].t = "str") =>
               OrHolds(gen, ContactClause(data.vals["contact"].s), "contact")
        /\ (schema = Band /\ data.t = "int") =>
               OrHolds(gen, BandClause(Num(data)), "")

(***************************************************************************)
(* utils.py: parse_constraints applied to one clause with a quoted value   *)
(***************************************************************************)
\* the longest quoted value
MaxQuoted == 3
\* the delimiters, a space and a letter
QuoteChars == {";", "|", "?", " ", "a"}

RECURSIVE Words(_, _)
\* the strings of at most n characters of chars
Words(chars, n) ==
    IF n = 0 THEN {""}
    ELSE Words(chars, n - 1) \cup {w \o c : w \in Words(chars, n - 1), c \in chars}

\* the clause k='v'
Quoted(v) == "k='" \o v \o "'"
\* the value between the quotes of such a clause
QuotedValue(s) == SubSeq(s, 4, Len(s) - 1)

InitParse ==
    /\ schema = TAny
    /\ data = VNone
    /\ tree = NotRun
    /\ gen = NotRun
    /\ NewPytastic
    /\ clause \in {Quoted(v) : v \in Words(QuoteChars, MaxQuoted)}
    /\ parse = NotRun
    /\ NoObjects

\* parse_constraints(clause)
ParseClause ==
    /\ parse = NotRun
    /\ parse' = parse_constraints(clause)
    /\ UNCHANGED <<schema, data, tree, gen, cache, calls, last, prior, clause, objects>>

NextParse == ParseClause

SpecParse == InitParse /\ [][NextParse]_vars

\* the parse result is the single leaf (k, v)
SingleLeaf(r, v) ==
    /\ r.kind = "list" => r.nodes = <<LeafConstraint("k", VStr(v))>>
    /\ r.kind = "dict" => r.d = ("k" :> VStr(v))

\* the characters of a value are all delimiters
OnlyDelimiters(v) == \A i \in 1..Len(v) : Ch(v, i) \in {";", "|", "?"}

\* C21: every character between a pair of single quotes is literal: the clause
\* k='v' parses to the single leaf (k, v) whatever ';', '|' and '?' the value
\* holds
C21_QuotedLiteral ==
    parse # NotRun => SingleLeaf(parse, QuotedValue(clause))

(***************************************************************************)
(* Schemas with a malformed constraint string, given to the Validator tree *)
(* and to the generator of tests/test_complex_schemas.py                   *)
(***************************************************************************)
\* a bound that is not a number
BadMin == TAnnotated(TInt, <<"min=abc">>)
BadMax == TAnnotated(TFloat, <<"max=x">>)
BadStep == TAnnotated(TInt, <<"step=x">>)
BadLength == TAnnotated(TStr, <<"min_len=abc">>)
BadItems == TAnnotated(TList(TInt), <<"min_items=q">>)
BadField == TTypedDict("BadField", <<Field("n", BadMin)>>)
NonNumericSchemas == {BadMin, BadMax, BadStep, BadLength, BadItems, BadField}
\* a condition that is not of the form field==literal
BadCondition == TAnnotated(TInt, <<"t ? min=2">>)
TwiceEqual == TAnnotated(TInt, <<"t==a==b ? min=2">>)
BadConditionSchemas == {BadCondition, TwiceEqual}

MalformedSchemas == NonNumericSchemas \cup BadConditionSchemas

MalformedInputs ==
    {VInt(1), VInt(5), VStr("ab"), VNone, VList(<<>>), VList(<<VInt(1)>>),
     VDict(<<"n">>, [n |-> VInt(1)]), EmptyDict}

InitMalformed ==
    /\ schema \in MalformedSchemas
    /\ data \in MalformedInputs
    /\ tree = NotRun
    /\ gen = NotRun
    /\ NewPytastic
    /\ NoText

NextMalformed == RunTree \/ RunCodegen2

SpecMalformed == InitMalformed /\ [][NextMalformed]_vars

\* the exception SchemaCompiler.compile ends with, "" when it returns
TreeCompileExc(s) ==
    The({IF Failed(v) THEN v.exc ELSE "" : v \in {_build_validator(s)}})

\* C22: compile of a schema with a malformed constraint string raises
\* SchemaDefinitionError, in the Validator tree and in the generator: no
\* validator is returned, no other exception type is raised and nothing is
\* left for the validate call to raise
C22_MalformedRejected ==
    /\ tree # NotRun => TreeCompileExc(schema) = "SchemaDefinitionError"
    /\ gen # NotRun => CompileExc(CodeOf2(schema)) = "SchemaDefinitionError"

(***************************************************************************)
(* Schemas whose validate call divides, hashes or converts: a step of 0, a *)
(* unique sequence of sequences, a limit that is not a number              *)
(***************************************************************************)
ZeroStep == TAnnotated(TInt, <<"step=0">>)
ZeroMultiple == TAnnotated(TFloat, <<"multiple_of=0">>)
ExceptionSchemas == {ZeroStep, ZeroMultiple, Rows, BadItems}

ExceptionInputs ==
    {VInt(0), VInt(5), VFloat(25), VBool(TRUE), VStr("x"), VNone, VList(<<>>),
     VList(<<VInt(1)>>), VList(<<VList(<<VInt(1)>>)>>)}

InitExceptions ==
    /\ schema \in ExceptionSchemas
    /\ data \in ExceptionInputs
    /\ tree = NotRun
    /\ gen = NotRun
    /\ NewPytastic
    /\ NoText

NextExceptions == RunTree \/ RunCodegen2

SpecExceptions == InitExceptions /\ [][NextExceptions]_vars

\* the call returned a value or raised ValidationError
ReturnedOrRejected(r) == Accepted(r) \/ Rejected(r)

\* C23: a validate call of a validator that compile returned, in the Validator
\* tree and in the generated procedure, returns a value or raises
\* ValidationError and never ends with another exception type
C23_OnlyValidationError ==
    /\ tree # NotRun /\ TreeCompileExc(schema) = "" => ReturnedOrRejected(tree)
    /\ gen # NotRun /\ CompileExc(CodeOf2(schema)) = "" => ReturnedOrRejected(gen)

(***************************************************************************)
(* Properties of the errors raised (specification Spec)                    *)
(***************************************************************************)
\* the entries of a raised ValidationError: at least one, each with a path
\* and a message
WellFormedError(r) ==
    /\ r.errors # <<>>
    /\ \A i \in DOMAIN r.errors :
          /\ DOMAIN r.errors[i] = {"path", "message"}
          /\ r.errors[i].message # ""

\* C24: every ValidationError raised by a validator of the tree or by a
\* compiled procedure carries at least one error entry, and every entry has a
\* path and a message
C24_ErrorEntries ==
    /\ Rejected(tree) => WellFormedError(tree)
    /\ Rejected(gen) => WellFormedError(gen)

\* a record rejected by both backends for more than one reason
C24_Witness ==
    /\ schema.k = "TypedDict"
    /\ data.t = "dict"
    /\ Rejected(tree)
    /\ Len(tree.errors) >= 2
    /\ Rejected(gen)

(***************************************************************************)
(* compiler.py, codegen.py: compile and its cache.  A validator object is  *)
(* known by the number it got when it was created by its compiler.         *)
(***************************************************************************)
\* the most compile calls in one behaviour
MaxCompiles == 3

RECURSIVE LeafDescriptors(_, _)
RECURSIVE LeafDescriptorsOf(_, _, _)
\* the descriptors _node_to_validator hands to self.compile: one
\* Annotated[base_type, "key=value"] for every leaf under a wrapper
LeafDescriptors(node, base_type) ==
    CASE node.node = "Leaf" ->
            <<TAnnotated(base_type, <<node.key \o "=" \o ValueStr(node.value)>>)>>
      [] node.node = "Or" -> LeafDescriptorsOf(node.constraints, base_type, 1)
      [] OTHER -> LeafDescriptors(node.constraint, base_type)
LeafDescriptorsOf(nodes, base_type, i) ==
    IF i > Len(nodes) THEN <<>>
    ELSE LeafDescriptors(nodes[i], base_type)
         \o LeafDescriptorsOf(nodes, base_type, i + 1)

\* the types of the declared fields, in declaration order
FieldTypes(td) == [i \in DOMAIN DeclaredFields(td) |-> DeclaredFields(td)[i].type]

\* the descriptors on which _build_validator(schema) calls self.compile, in
\* the order of the calls; the generator calls compile on none
SubSchemas(kind, s) ==
    IF kind = "CodegenCompiler" THEN <<>>
    ELSE CASE s.k = "Annotated" ->
                (CASE s.base.k \in {"int", "float", "str", "Literal"} -> <<>>
                   [] s.base.k = "list" -> <<s.base.item>>
                   [] s.base.k = "tuple" -> s.base.items
                   [] s.base.k = "Union" -> s.base.alts
                   [] s.base.k = "TypedDict" -> FieldTypes(s.base)
                   [] OTHER -> <<s.base>>)
                \o LeafDescriptorsOf(
                       WrappersOf(parse_constraints(ConstraintStr(s.meta, 1))),
                       s.base, 1)
           [] s.k = "TypedDict" -> FieldTypes(s)
           [] s.k = "list" -> <<s.item>>
           [] s.k = "tuple" -> s.items
           [] s.k = "Union" -> s.alts
           [] s.k = "NotRequired" -> <<s.arg>>
           [] OTHER -> <<>>

\* the constructor of the validator of s, or the generation and exec of its
\* code, raises
BuildRaises(kind, s) ==
    IF kind = "CodegenCompiler" THEN CompileExc(CodeOf(s)) # ""
    ELSE Failed(_build_validator(s))

\* every call builds
CacheHit_never(c, s) == FALSE
\* "if schema in self._cache"
CacheHit(c, s) == s \in DOMAIN c._cache

\* the compiler with one more validator object, built for s and cached
Stored(c, s, validator) == [c EXCEPT !._cache = (s :> validator) @@ @]
Created(c, s) ==
    [c EXCEPT !.heap = @ + 1, !.built = Append(@, s)]

RECURSIVE CompileIn(_, _, _)
RECURSIVE CompileEach(_, _, _, _)
\* compile(schema) run to its end on the compiler c of the given kind: the
\* compiler after the call and the object returned, 0 when the call raised
CompileIn(c, kind, s) ==
    IF CacheHit(c, s) THEN [c |-> c, ret |-> c._cache[s]]
    ELSE The({IF subs.ret = 0 \/ BuildRaises(kind, s) THEN [c |-> subs.c, ret |-> 0]
              ELSE [c |-> Stored(Created(subs.c, s), s, subs.c.heap + 1),
                    ret |-> subs.c.heap + 1] :
                 subs \in {CompileEach(
                              IF kind = "CodegenCompiler"
                              THEN [c EXCEPT !._counter = @ + 1] ELSE c,
                              kind, SubSchemas(kind, s), 1)}})
\* the calls of compile on the parts, up to the first that raises
CompileEach(c, kind, parts, i) ==
    IF i > Len(parts) THEN [c |-> c, ret |-> 1]
    ELSE The({IF r.ret = 0 THEN r ELSE CompileEach(r.c, kind, parts, i + 1) :
                 r \in {CompileIn(c, kind, parts[i])}})

\* the descriptors compiled: scalars, containers, records of the partial
\* tests, and one whose constraint string makes the build raise
CompileSchemas == {TInt, TList(TInt), Address, User, Age, BadMin}

InitCompile ==
    /\ schema = TAny
    /\ data = VNone
    /\ tree = NotRun
    /\ gen = NotRun
    /\ NewPytastic
    /\ NoText

\* one call compiler.compile(s), from its first line to its return or raise
Compile(kind, s) ==
    /\ Len(returned) < MaxCompiles
    /\ \E r \in {CompileIn(compilers[kind], kind, s)} :
          /\ compilers' = [compilers EXCEPT ![kind] = r.c]
          /\ returned' = Append(returned, [kind |-> kind, schema |-> s, ret |-> r.ret])
    /\ UNCHANGED <<schema, data, tree, gen, cache, calls, last, prior, parser,
                   threads, registry>>

NextCompile == \E kind \in CompilerKinds : \E s \in CompileSchemas : Compile(kind, s)

SpecCompile == InitCompile /\ [][NextCompile]_vars

\* how many times the compiler built a validator for s
Builds(c, s) == Cardinality({i \in DOMAIN c.built : c.built[i] = s})

\* C25: in any sequence of compile calls on one compiler, each descriptor is
\* built at most once and every call with the same descriptor returns the
\* validator object that the first such call returned.
C25_CompiledOnce ==
    /\ \A kind \in CompilerKinds :
          \A i \in DOMAIN compilers[kind].built :
              Builds(compilers[kind], compilers[kind].built[i]) = 1
    /\ \A i, j \in DOMAIN returned :
          /\ returned[i].kind = returned[j].kind
          /\ returned[i].schema = returned[j].schema
          /\ returned[i].ret # 0
          /\ returned[j].ret # 0
          => returned[i].ret = returned[j].ret

\* the record User compiled, then its part Address, then User again, on the
\* SchemaCompiler: three calls that returned and two objects
C25_Witness ==
    /\ Len(returned) >= 3
    /\ \A i \in 1..3 : returned[i].kind = "SchemaCompiler" /\ returned[i].ret # 0
    /\ returned[1].schema = User
    /\ returned[2].schema = Address
    /\ returned[3].schema = User
    /\ Builds(compilers["SchemaCompiler"], Address) = 1

(***************************************************************************)
(* compile called from two threads on the same compilers: a thread may be  *)
(* suspended between two statements of compile                             *)
(***************************************************************************)
\* the descriptors the threads compile
ThreadSchemas == {TInt, Address, User}

Active == {t \in Threads : threads[t].pc # "idle"}

\* a thread enters compiler.compile(s)
Call(t, kind, s) ==
    /\ threads[t].pc = "idle"
    /\ Len(returned) + Cardinality(Active) < MaxCompiles
    /\ threads' = [threads EXCEPT ![t] =
                      [pc |-> "check", kind |-> kind, schema |-> s, validator |-> 0]]
    /\ UNCHANGED <<schema, data, tree, gen, cache, calls, last, prior, parser,
                   compilers, returned, registry>>

\* "if schema in self._cache: return self._cache[schema]"
Check(t) ==
    LET self == threads[t]
        c == compilers[self.kind]
    IN /\ self.pc = "check"
       /\ IF CacheHit(c, self.schema)
          THEN /\ returned' = Append(returned,
                      [kind |-> self.kind, schema |-> self.schema,
                       ret |-> c._cache[self.schema]])
               /\ threads' = [threads EXCEPT ![t] = Idle]
          ELSE /\ threads' = [threads EXCEPT ![t].pc = "build"]
               /\ UNCHANGED returned
       /\ UNCHANGED <<schema, data, tree, gen, cache, calls, last, prior, parser,
                      compilers, registry>>

\* "validator = self._build_validator(schema)", the compile calls on the
\* parts included; the generator counts the schema before it generates
Build(t) ==
    LET self == threads[t]
        c == compilers[self.kind]
    IN /\ self.pc = "build"
       /\ \E subs \in {CompileEach(
                          IF self.kind = "CodegenCompiler"
                          THEN [c EXCEPT !._counter = @ + 1] ELSE c,
                          self.kind, SubSchemas(self.kind, self.schema), 1)} :
             IF subs.ret = 0 \/ BuildRaises(self.kind, self.schema)
             THEN /\ compilers' = [compilers EXCEPT ![self.kind] = subs.c]
                  /\ returned' = Append(returned,
                         [kind |-> self.kind, schema |-> self.schema, ret |-> 0])
                  /\ threads' = [threads EXCEPT ![t] = Idle]
             ELSE /\ compilers' = [compilers EXCEPT ![self.kind] =
                                       Created(subs.c, self.schema)]
                  /\ threads' = [threads EXCEPT ![t].pc = "store",
                                                ![t].validator = subs.c.heap + 1]
                  /\ UNCHANGED returned
       /\ UNCHANGED <<schema, data, tree, gen, cache, calls, last, prior, parser,
                      registry>>

\* "self._cache[schema] = validator"
Store(t) ==
    LET self == threads[t]
    IN /\ self.pc = "store"
       /\ compilers' = [compilers EXCEPT ![self.kind] =
                           Stored(@, self.schema, self.validator)]
       /\ threads' = [threads EXCEPT ![t].pc = "return"]
       /\ UNCHANGED <<schema, data, tree, gen, cache, calls, last, prior, parser,
                      returned, registry>>

\* "return validator"
Return(t) ==
    LET self == threads[t]
    IN /\ self.pc = "return"
       /\ returned' = Append(returned,
              [kind |-> self.kind, schema |-> self.schema, ret |-> self.validator])
       /\ threads' = [threads EXCEPT ![t] = Idle]
       /\ UNCHANGED <<schema, data, tree, gen, cache, calls, last, prior, parser,
                      compilers, registry>>

NextThreads ==
    \E t \in Threads :
        \/ \E kind \in CompilerKinds : \E s \in ThreadSchemas : Call(t, kind, s)
        \/ Check(t)
        \/ Build(t)
        \/ Store(t)
        \/ Return(t)

SpecThreads == InitCompile /\ [][NextThreads]_vars

\* C27: when two threads call compile on the same compiler with the same
\* descriptor that is not yet cached, the descriptor is built exactly once
\* and both callers receive the same validator object.
C27_ConcurrentCompile ==
    \A kind \in CompilerKinds : \A s \in ThreadSchemas :
        /\ Builds(compilers[kind], s) <= 1
        /\ \A i, j \in DOMAIN returned :
              /\ returned[i].kind = kind /\ returned[j].kind = kind
              /\ returned[i].schema = s /\ returned[j].schema = s
              => returned[i].ret = returned[j].ret

(***************************************************************************)
(* core.py: register and the attribute lookup vx.<Name>(data)              *)
(***************************************************************************)
\* the most register calls in one behaviour
MaxRegisters == 3

\* two classes named User, declared one after the other, and a class Config
UserOne == TTypedDict("User", <<Field("age", TInt)>>)
UserTwo == TTypedDict("User", <<Field("age", TStr)>>)
Flags == TTypedDict("Config", <<Field("debug", TBool)>>)
RegistrySchemas == {UserOne, UserTwo, Flags}
\* the attribute names looked up: two that get registered, one that never is
LookupNames == {"User", "Config", "Missing"}
RegistryInputs ==
    {EmptyDict, VDict(<<"age">>, [age |-> VInt(30)]), VDict(<<"age">>, [age |-> VStr("x")]),
     VDict(<<"debug">>, [debug |-> VBool(TRUE)])}

\* the schema a validator object of the code generator was compiled from
SchemaOf(validator) == compilers["CodegenCompiler"].built[validator]

\* Pytastic.register(s)
Register(s) ==
    /\ Len(registry.registered) < MaxRegisters
    /\ \E r \in {CompileIn(compilers["CodegenCompiler"], "CodegenCompiler", s)} :
          /\ compilers' = [compilers EXCEPT !["CodegenCompiler"] = r.c]
          /\ registry' =
                IF r.ret = 0 THEN registry
                ELSE [registry EXCEPT !._registry = (s.name :> r.ret) @@ @,
                                      !.registered = Append(@, s)]
    /\ UNCHANGED <<schema, data, tree, gen, cache, calls, last, prior, parser,
                   threads, returned>>

\* Pytastic.__getattr__(name): the validator object, 0 for AttributeError
GetAttr(self, name) ==
    IF name \in DOMAIN self._attr_cache THEN self._attr_cache[name]
    ELSE IF name \in DOMAIN self._registry THEN self._registry[name]
    ELSE 0

\* vx.<name>(d): the lookup, which fills _attr_cache, and the call of what it
\* returned
Lookup(name, d) ==
    /\ \E validator \in {GetAttr(registry, name)} :
          registry' =
             IF validator = 0
             THEN [registry EXCEPT !.call = [name |-> name, data |-> d,
                                             after |-> Len(registry.registered),
                                             result |-> Crash("AttributeError")]]
             ELSE [registry EXCEPT
                      !._attr_cache = (name :> validator) @@ @,
                      !.call = [name |-> name, data |-> d,
                                after |-> Len(registry.registered),
                                result |-> CallProcedure(CodeOf(SchemaOf(validator)), d)]]
    /\ UNCHANGED <<schema, data, tree, gen, cache, calls, last, prior, parser,
                   compilers, threads, returned>>

NextRegistry ==
    \/ \E s \in RegistrySchemas : Register(s)
    \/ \E name \in LookupNames : \E d \in RegistryInputs : Lookup(name, d)

SpecRegistry == InitCompile /\ [][NextRegistry]_vars

\* the positions, among the first n register calls, of those made with a
\* schema of that name
RegisteredAs(name, n) ==
    {i \in 1..n : registry.registered[i].name = name}
\* the schema most recently registered under the name by the first n calls
LatestOf(name, n) ==
    registry.registered[CHOOSE i \in RegisteredAs(name, n) :
                            \A j \in RegisteredAs(name, n) : j <= i]

\* C26: after any register calls and lookups, vx.<Name>(data) gives what the
\* validator of the schema most recently registered under Name gives on
\* data, and a name never registered raises AttributeError.
C26_LatestRegistered ==
    registry.call # NoLookup =>
        IF RegisteredAs(registry.call.name, registry.call.after) = {}
        THEN registry.call.result = Crash("AttributeError")
        ELSE registry.call.result =
                CodegenRun(LatestOf(registry.call.name, registry.call.after),
                           registry.call.data)

(***************************************************************************)
(* The frame of a validate call: the objects a call writes in place.  The  *)
(* validate methods and the generated procedures write only through        *)
(* "<name>[key] = ...", "<name>.append(...)" and "<name>.extend(...)"; a   *)
(* written object is named by the local name it is written through and by  *)
(* where that name got its object: "new" for an object the call created,   *)
(* "argument" for the argument or a part of it, "self" for the validator.  *)
(***************************************************************************)
Write(name, from) == [name |-> name, from |-> from]

\* ObjectValidator.validate with "final_data = data" in place of "final_data = {}"
TreeWrites_aliased(cls) ==
    CASE cls = "ObjectValidator" ->
            {Write("final_data", "argument"), Write("errors", "new")}
      [] cls = "CollectionValidator" -> {Write("validated_data", "new")}
      [] cls = "UnionValidator" -> {Write("valid_results", "new"), Write("errors", "new")}
      [] OTHER -> {}
\* the objects the validate method of a validator class writes:
\* ObjectValidator "final_data = {}" and "errors = []", then
\* "final_data[key] = ...", "errors.append", "errors.extend";
\* CollectionValidator "validated_data = []", then "validated_data.append";
\* UnionValidator "valid_results = []" and "errors = []", then the appends;
\* the other classes assign local names only
TreeWrites(cls) ==
    CASE cls = "ObjectValidator" ->
            {Write("final_data", "new"), Write("errors", "new")}
      [] cls = "CollectionValidator" -> {Write("validated_data", "new")}
      [] cls = "UnionValidator" -> {Write("valid_results", "new"), Write("errors", "new")}
      [] OTHER -> {}

\* the validators a validator calls validate on
Children(self) ==
    CASE self.cls = "ObjectValidator" -> [i \in DOMAIN self.fields |-> self.fields[i].validator]
      [] self.cls = "CollectionValidator" -> self.item_validator
      [] self.cls \in {"UnionValidator", "CompositeValidator", "OrValidator"} ->
            self.validators
      [] self.cls \in {"NotValidator", "ConditionalValidator"} -> <<self.validator>>
      [] OTHER -> <<>>

RECURSIVE TreeWritten(_)
\* the objects a call self.validate(data) may write, the calls it makes on
\* its children included
TreeWritten(self) ==
    TreeWrites(self.cls)
    \cup UNION {TreeWritten(Children(self)[i]) : i \in DOMAIN Children(self)}

\* the statement of a generated procedure writes the object of ln.var
InPlace(ln) == ln.op = "append"
\* where the name written through got its object: "<name> = []" makes a new
\* list; "data", and a name set by ".get(key)", "[i]" or "for ... in", holds
\* the argument or a part of it
Origin(L, name) ==
    IF \E i \in DOMAIN L : L[i].op = "assign" /\ L[i].var = name /\ L[i].arg = VList(<<>>)
    THEN "new"
    ELSE "argument"
\* the objects a call of the procedure may write
CodeWritten(L) ==
    {Write(L[i].var, Origin(L, L[i].var)) : i \in {j \in DOMAIN L : InPlace(L[j])}}

\* the value the name data holds when the procedure stops
DataAfter(L, d) ==
    The({r.env["data"] :
            r \in {Exec(L, 2, Len(L) + 1,
                        Bind(Bind(Bind(<<>>, "data", d), "path", VStr("")),
                             "context", VNone))}})

\* a record with a list and a union among its fields
Team ==
    TTypedDict("Team",
        <<Field("members", TList(TInt)), Field("lead", TUnion(<<TInt, TStr>>))>>)
FrameSchemas == {Team, TList(TInt)}
TeamOf(members, lead) ==
    VDict(<<"members", "lead">>, [members |-> members, lead |-> lead])
FrameInputs ==
    {VStr("s"), VList(<<VInt(1), VInt(2)>>),
     TeamOf(VList(<<VInt(1)>>), VStr("s")), TeamOf(VList(<<>>), VInt(5)),
     TeamOf(VList(<<VInt(1), VStr("s")>>), VNone)}
\* the generated text of the two CodegenCompiler sources
Versions == {1, 2}

\* compiler.compile(s) for a schema not compiled yet
CompileNew(kind, s) ==
    /\ ~CacheHit(compilers[kind], s)
    /\ compilers' = [compilers EXCEPT ![kind] = CompileIn(compilers[kind], kind, s).c]
    /\ UNCHANGED <<schema, data, tree, gen, cache, calls, last, prior, parser,
                   threads, returned, registry>>

\* one call of a cached validator: validator.validate(d) of the tree, or
\* validator(d) of the generated procedure; data is the argument after it
CallRecord(kind, version, s, d) ==
    IF kind = "SchemaCompiler"
    THEN [kind |-> kind, schema |-> s, data |-> d, after |-> d,
          result |-> TreeRun(s, d),
          written |-> The({TreeWritten(self) : self \in {_build_validator(s)}})]
    ELSE The({[kind |-> kind, schema |-> s, data |-> d, after |-> DataAfter(L, d),
               result |-> IF version = 1 THEN CallProcedure(L, d)
                          ELSE CallProcedure2(L, d),
               written |-> CodeWritten(L)] :
                L \in {IF version = 1 THEN CodeOf(s) ELSE CodeOf2(s)}})

ValidatorCall(kind, version, s, d) ==
    /\ CacheHit(compilers[kind], s)
    /\ \E call \in {CallRecord(kind, version, s, d)} :
          /\ last' = call
          /\ data' = call.after
    /\ UNCHANGED <<schema, tree, gen, cache, calls, prior, parser, objects>>

NextFrame ==
    \/ \E kind \in CompilerKinds : \E s \in FrameSchemas : CompileNew(kind, s)
    \/ \E kind \in CompilerKinds : \E version \in Versions :
          \E s \in FrameSchemas : \E d \in FrameInputs :
             ValidatorCall(kind, version, s, d)

SpecFrame == InitCompile /\ [][NextFrame]_vars

\* a validator was called
Called28 == "written" \in DOMAIN last

C28_WitnessAccepted ==
    /\ Called28
    /\ last.written # {}
    /\ Accepted(last.result)
    /\ last.data.t = "dict"

(***************************************************************************)
(* The fields of a record in the generated procedure, one by one.          *)
(***************************************************************************)
\* the key is in the record with a value other than None
Present(d, key) == key \in Range(d.keys) /\ d.vals[key] # VNone

\* C29: in the generated procedure a required field that is absent is
\* reported and a present field is checked against its type, whatever
\* optional fields are declared before it and whether or not they are present
C29_FieldsIndependent ==
    (gen # NotRun /\ schema.k = "TypedDict" /\ data.t = "dict") =>
        \A i \in DOMAIN DeclaredFields(schema) :
            LET f == DeclaredFields(schema)[i]
            IN /\ (f.key \in RequiredKeys(schema) /\ ~Present(data, f.key))
                      => Rejected(gen)
               /\ (Present(data, f.key)
                     /\ Rejected(CodegenRun(f.type, data.vals[f.key])))
                      => Rejected(gen)

(***************************************************************************)
(* A union of records that hold a union-typed field.                       *)
(***************************************************************************)
Cash == TTypedDict("Cash", <<Field("id", TUnion(<<TInt, TStr>>)), Field("n", TStr)>>)
NestedSchemas == {TUnion(<<Cash, TStr>>), TUnion(<<TStr, Cash>>), Cash}
NestedInputs ==
    {VInt(5), EmptyDict}
    \cup {VDict(<<"id">>, [id |-> x]) : x \in {VInt(1), VStr("s"), VFloat(25)}}
    \cup {VDict(<<"id", "n">>, [id |-> x, n |-> y]) :
            x \in {VInt(1), VStr("s"), VFloat(25)}, y \in {VInt(1), VStr("s"), VFloat(25)}}

InitNested ==
    /\ schema \in NestedSchemas
    /\ data \in NestedInputs
    /\ tree = NotRun
    /\ gen = NotRun
    /\ NewPytastic
    /\ NoText

NextNested == RunTree \/ RunCodegen2

SpecNested == InitNested /\ [][NextNested]_vars

\* some alternative of the union, compiled alone, accepts the value
SomeAlternative(s, d) ==
    \E i \in DOMAIN s.alts : Accepted(CodegenRun2(s.alts[i], d))

\* C30: the generated procedure of a union of records with a union-typed
\* field accepts a value exactly when one of the alternatives accepts the
\* whole value
C30_NestedUnion ==
    (gen # NotRun /\ schema.k = "Union") =>
        (Accepted(gen) <=> SomeAlternative(schema, data))

====
